---- MODULE Spec2Model ----
(***************************************************************************)
(* Model of the web-research subsystem of the fashion trend assistant      *)
(* (src/trend_assistant/clients/research_client.py).                       *)
(*                                                                         *)
(* Spec      : one call of gather_research_documents: the construction of  *)
(*             the search client, the searches, the URL filter, the        *)
(*             semaphore-gated scraping tasks, asyncio.gather and the      *)
(*             final selection of the valid contents.  A task is followed  *)
(*             through the regions of _scrape_url_content that the event   *)
(*             loop can tell apart: waiting for the semaphore, the try     *)
(*             body of _scrape_single_url_enhanced, its finally block, and *)
(*             the end of the call.                                        *)
(* FairSpec  : Spec with weak fairness on every step (the event loop runs  *)
(*             every ready task, every timer fires).                       *)
(* FetchSpec : one call of _scrape_url_content, await by await.            *)
(* FilterSpec: the URL filter applied to a set of URLs and to its output.  *)
(* ExtractSpec: one call of _extract_text_content_enhanced.                *)
(* RouteSpec : _defensive_route_handler on the requests of one page.       *)
(* BatchSpec : one call of _run_tasks_in_batches                           *)
(*             (src/trend_assistant/services/workflow_service.py).         *)
(* WorkflowSpec: one call of run_creative_process (same file).             *)
(* ReportSpec: one call of save_scraping_report                            *)
(*             (src/trend_assistant/utils/output_utils.py).                *)
(* BreakerSpec: the calls through one CircuitBreaker                       *)
(*             (src/trend_assistant/clients/llm_client.py).                *)
(* RetrySpec : one call of a function wrapped by _retry_with_backoff       *)
(*             (same file).                                                *)
(* GenTextSpec: one batch of generate_text_async calls (same file)         *)
(*             awaited by asyncio.gather.                                  *)
(***************************************************************************)
EXTENDS Integers, Sequences, FiniteSets, TLC

\* ------------------------------------------------------------------ bounds

\* The search engine has indexed the first n URLs of UrlPool, for some
\* n <= MaxUrls.
MaxUrls == 7

\* gather_research_documents is called with at most MaxQueries queries.
MaxQueries == 2

\* ------------------------------------------------------------ URL universe

\* A URL is a sequence of tokens; matching is done token by token, so
\* `endswith` looks at the last token and `in` at every token.
UrlPool ==
    << <<"https://", "pinterest.com", "/pin/42">>,
       <<"https://", "site.com", "/lookbook", ".PDF">>,
       <<"http://", "vogue.com", "/trends">>,
       <<"ftp://", "bad">>,
       <<"https://", "elle.com", "/runway">>,
       <<"https://", "wgsn.com", "/report">>,
       <<"http://", "harpers.com", "/ss25">>,
       <<"https://", "wwd.com", "/news">>,
       <<"https://", "Amazon.com", "/dp/1">>,
       <<"https://", "site.com", "/doc", ".pdf", "?dl=1">>,
       <<"https://", "site.com", "/view", "?file=a", ".pdf">>,
       <<"https://", "site.com", "/img", ".PNG", "#top">> >>

Urls == 1..MaxUrls

\* str.lower() on a token.
Lower(t) ==
    CASE t = ".PDF" -> ".pdf"
      [] t = "Amazon.com" -> "amazon.com"
      [] OTHER -> t

\* Faulty variant: the URL is compared as it is, without lower().
LowerUrlSkipped(url) == url

\* url.lower()
LowerUrl(url) == [i \in 1..Len(url) |-> Lower(url[i])]

ignored_extensions ==
    {".pdf", ".txt", ".zip", ".jpg", ".jpeg", ".png", ".gif", ".docx", ".xlsx"}

ignored_domains ==
    {"pinterest.com", "amazon.com", "instagram.com", "facebook.com",
     "twitter.com", "youtube.com"}

\* str.endswith(ext)
EndsWith(url, ext) == Len(url) > 0 /\ url[Len(url)] = ext

\* domain in url
Contains(url, d) == \E i \in 1..Len(url) : url[i] = d

\* The condition of the list comprehension that builds filtered_urls.
KeepUrl(url) ==
    /\ ~ \E ext \in ignored_extensions : EndsWith(LowerUrl(url), ext)
    /\ ~ \E d \in ignored_domains : Contains(LowerUrl(url), d)

\* url.startswith("http://") or url.startswith("https://")
HasHttpScheme(url) == Len(url) > 0 /\ url[1] \in {"http://", "https://"}

\* The list built from a set of URL indices (iteration order: by index).
RECURSIVE ListOf(_)
ListOf(S) ==
    IF S = {} THEN << >>
    ELSE LET m == CHOOSE x \in S : \A y \in S : x <= y
         IN  <<m>> \o ListOf(S \ {m})

\* What a loop that removes the unsuitable URLs from the list it iterates
\* over leaves: after a removal the next element is skipped.
RECURSIVE RemoveWhileIterating(_)
RemoveWhileIterating(l) ==
    IF l = << >> THEN << >>
    ELSE IF KeepUrl(UrlPool[Head(l)])
         THEN <<Head(l)>> \o RemoveWhileIterating(Tail(l))
         ELSE IF Len(l) = 1 THEN << >>
              ELSE <<l[2]>> \o RemoveWhileIterating(Tail(Tail(l)))

\* Faulty variant: the filter removes in place while iterating.
FilterUrlsInPlace(S) == RemoveWhileIterating(ListOf(S))

\* filtered_urls: the URLs of the set that pass both conditions.
FilterUrls(S) == ListOf({u \in S : KeepUrl(UrlPool[u])})

Range(s) == {s[i] : i \in 1..Len(s)}

\* ---------------------------------------------------------------- searches

Queries == 1..MaxQueries

\* config.SEARCH_NUM_RESULTS, passed as `num` to every search
SEARCH_NUM_RESULTS == 5

\* The links the search engine holds for query q, best first.  The lists of
\* consecutive queries overlap in one URL, and from the second query on the
\* first link is listed twice.
IndexedLinks(q) ==
    IF q = 1 THEN <<1, 2, 3, 4, 5>>
    ELSE LET c == 3 * q - 1 IN <<c, c, c + 1, c + 2>>

\* The first k elements of a list.
FirstN(s, k) == SubSeq(s, 1, IF Len(s) < k THEN Len(s) ELSE k)

\* result["items"] of a search that succeeds, when the engine has indexed
\* the first n URLs of UrlPool: at most `num` items.
SearchItems(q, n, num) ==
    FirstN(SelectSeq(IndexedLinks(q), LAMBDA u : u <= n), num)

\* What a search task hands to asyncio.gather: <<"list", l>> is the list l,
\* <<"exc", << >>>> an exception.
NoList == <<"none", << >>>>
UrlList(l) == <<"list", l>>
SearchRaised == <<"exc", << >>>>

\* Faulty variant: only HttpError is caught, any other error leaves the
\* function.
SearchReturnHttpOnly(outcome, items) ==
    CASE outcome = "ok" -> UrlList(items)
      [] outcome = "http_error" -> UrlList(<< >>)
      [] OTHER -> SearchRaised

\* _sync_google_search: the links of the items; [] after an HttpError and
\* after any other exception.
SearchReturn(outcome, items) ==
    CASE outcome = "ok" -> UrlList(items)
      [] outcome = "http_error" -> UrlList(<< >>)
      [] OTHER -> UrlList(<< >>)

\* The URLs of url_lists[1..k], one after the other.
RECURSIVE Flatten(_, _)
Flatten(lists, k) ==
    IF k = 0 THEN << >> ELSE Flatten(lists, k - 1) \o lists[k][2]

\* ------------------------------------------------------------------ values

\* What a scraping task hands to asyncio.gather: a string or an exception.
\* <<"str", 0>> is the empty string, <<"str", u>> the text extracted from
\* URL u, <<"exc", u>> an exception raised by the task of URL u.
NoValue == <<"none", 0>>
EmptyStr == <<"str", 0>>
Text(u) == <<"str", u>>
Raised(u) == <<"exc", u>>

\* ------------------------------------------------------------------- state

VARIABLES
    queries,         \* the argument: a list of queries
    web,             \* how many URLs of UrlPool the search engine has indexed
    search_service,  \* "none" | "built" | "failed": the outcome of build()
    search_outcome,  \* per query: "none" | "running" | "ok" | "failed"
    url_lists,       \* per query: what its search task handed to gather
    all_urls,        \* set of URLs found by the searches (line 317)
    filtered_urls,   \* list of the URLs that survive the filter (line 340)
    gpc,             \* position of gather_research_documents
    semaphore,       \* asyncio.Semaphore(4): the number of free permits
    waiters,         \* tasks waiting in `async with semaphore`, in order
    tpc,             \* per URL: position of its scraping task
    timed_out,       \* per URL: wait_for's 30 s timer has fired
    scraped,         \* per URL: what its task handed to gather
    fetch_calls,     \* the URLs _scrape_url_content was called with, in order
    session,         \* per URL: the browser session its fetch works in (0: none)
    session_count,   \* number of browser sessions created so far
    scraped_contents, \* what asyncio.gather returned, one entry per task
    result           \* what gather_research_documents returned

\* One call of _scrape_url_content(url), followed await by await.
VARIABLES
    url,             \* the argument: an index of UrlPool
    fpc,             \* the await the call is suspended in, or "done"
    pw,              \* the Playwright driver of the `async with` block
    browser,         \* browser is not None
    context,         \* context is not None
    page,            \* page is not None
    html_content,    \* "" | "short" (at most 500 characters) | "long"
    strategy,        \* index of the navigation strategy in progress
    selector,        \* index of the cookie selector in progress
    nav_log,         \* names of the strategies page.goto was called with
    nav_results,     \* per strategy tried: "error" | "short" | "long"
    clicked,         \* number of cookie selectors whose click succeeded
    cancelled,       \* wait_for's timer has fired and cancelled the task
    torn_down,       \* per step of the finally block: "no" | "ok" | "error"
    fresult          \* what _scrape_url_content handed to its caller

\* The requests of one page that _defensive_route_handler intercepts.
VARIABLES
    requests,        \* the resource types of the intercepted requests
    route_calls,     \* per request: the calls made on its route, in order
    handled,         \* per request: where its handler call is: "pending" |
                     \* "calling" | "returned" | "swallowed" | "raised"
    route_error,     \* per request: the exception its route call raised
    target_closed    \* the page, context or browser has been closed

rtvars == <<requests, route_calls, handled, route_error, target_closed>>

\* One call of _run_tasks_in_batches(tasks, batch_size, delay_seconds).
VARIABLES
    tasks,           \* the argument: the list of tasks, here 1..n
    batch_size,      \* the argument
    bpc,             \* "loop" | "gathering" | "sleeping" | "returned" | "raised"
    batch_start,     \* i, the loop variable
    task_state,      \* per task: "created" | "running" | "done" | "failed"
    finished,        \* the tasks that have ended, in the order they ended
    all_results,     \* the list the results are collected in
    sleeps           \* how often asyncio.sleep(delay_seconds) has completed

bvars == <<tasks, batch_size, bpc, batch_start, task_state, finished,
           all_results, sleeps>>

\* One call of run_creative_process(season, year, theme_hint,
\* target_audience, region).  None is "None" for a string and 0 for a year.
VARIABLES
    args,            \* the arguments, as the caller gave them
    now,             \* datetime.now(): its month and year
    season,          \* the local variable season
    year,            \* the local variable year
    wpc,             \* the position of the run, "halted", "completed"
    cached_report,   \* "None" | "valid" | "invalid": what check_cache returned
    wqueries,        \* the list _generate_search_queries returned
    scraped_documents, \* len(scraped_documents)
    valid_summaries, \* len(valid_summaries)
    validated_report, \* a report has passed FashionTrendReport validation
    events           \* the calls the run has made to the outside, in order

wvars == <<args, now, season, year, wpc, cached_report, wqueries,
           scraped_documents, valid_summaries, validated_report, events>>

\* One call of save_scraping_report(results)
\* (src/trend_assistant/utils/output_utils.py).
VARIABLES
    results,         \* the argument: a list of dicts
    processed,       \* how many results the loop has gone through
    report,          \* the dict of the three lists
    report_pc,       \* "loop" | "returned"
    saved            \* what save_json_to_results returned

rpvars == <<results, processed, report, report_pc, saved>>

\* One CircuitBreaker and the calls made through it, one after another
\* (src/trend_assistant/clients/llm_client.py).
VARIABLES
    state,           \* self.state
    failure_count,   \* self.failure_count
    last_failure_time, \* self.last_failure_time; 0: None
    consecutive_successes, \* self.consecutive_successes
    clock,           \* time.time(), in seconds
    calls,           \* how many times call has been called
    last_call,       \* how the last call ended: "none" | "rejected" (raised
                     \* without invoking func) | "ok" | "failed"
    failed_at,       \* when func last raised; 0: never
    failures_in_a_row, \* the failed calls since the last successful one
    successes_in_a_row, \* the successful calls since the last failed one
    invoked_in       \* self.state when func was last invoked; "none": never

cbvars == <<state, failure_count, last_failure_time, consecutive_successes,
            clock, calls, last_call, failed_at, failures_in_a_row,
            successes_in_a_row, invoked_in>>

\* One call of the wrapper that _retry_with_backoff returns.
VARIABLES
    attempt,         \* the loop variable
    retry_pc,        \* "loop" | "sleeping" | "returned" | "raised"
    attempts,        \* what each invocation of func ended with, in order
    last_exception,  \* the local variable; << >>: None
    retry_result,    \* what the wrapper returned: the number of the attempt
                     \* whose result it is; 0: nothing
    retry_raised     \* the exception the wrapper raised; << >>: none

revars == <<attempt, retry_pc, attempts, last_exception, retry_result,
            retry_raised>>

\* One batch of generate_text_async calls awaited by asyncio.gather.
VARIABLES
    client,          \* the module's GenAI client: "Client" | "None"
    prompts,         \* the number of calls in the batch
    text_pc,         \* per call: "created" | "async" | "sync" | "returned"
                     \* | "raised"
    async_error,     \* per call: the exception of the asynchronous request;
                     \* << >>: none
    sync_calls,      \* per call: the calls of _sync_generate_text made
    sync_attempt,    \* per call: the loop variable of the retrying wrapper
    text_result,     \* per call: what the call returned: "text" | "None";
                     \* "unset": nothing
    batch_pc         \* the gather: "awaiting" | "returned" | "raised"

gtvars == <<client, prompts, text_pc, async_error, sync_calls, sync_attempt,
            text_result, batch_pc>>

\* The variables of the search phase and those of the browser sessions.
svars == <<queries, web, search_service, search_outcome, url_lists>>
sessvars == <<session, session_count>>

\* The URL filter of gather_research_documents applied to a set of URLs,
\* and once more to its own output.
VARIABLES
    flt_pc,          \* "start" | "filtered" | "refiltered"
    flt_all_urls,    \* the set the filter is applied to
    flt_filtered,    \* the list the filter returns for flt_all_urls
    flt_refiltered   \* the list the filter returns for flt_filtered

\* One call of _extract_text_content_enhanced(html_content, url).
VARIABLES
    epc,             \* "parsed" | "rooted" | "returned"
    soup,            \* per content selector: what select_one finds:
                     \* "none" | "short" (at most 300 characters) | "long"
    target_soup,     \* the extraction root: a selector's index, 0: the document
    cleaned_text,    \* len(cleaned_text)
    extracted        \* length of the returned string

fltvars == <<flt_pc, flt_all_urls, flt_filtered, flt_refiltered>>

extvars == <<epc, soup, target_soup, cleaned_text, extracted>>

gvars == <<svars, all_urls, filtered_urls, gpc, semaphore, waiters, tpc,
           timed_out, scraped, fetch_calls, sessvars, scraped_contents,
           result>>

fvars == <<url, fpc, pw, browser, context, page, html_content, strategy,
           selector, nav_log, nav_results, clicked, cancelled, torn_down,
           fresult>>

vars == <<gvars, fvars, fltvars, extvars, rtvars, bvars, wvars, rpvars, cbvars, revars, gtvars>>

\* What the steps of gather_research_documents leave alone, and what the
\* steps of a single _scrape_url_content call leave alone.
gframe == <<fvars, fltvars, extvars, rtvars, bvars, wvars, rpvars, cbvars, revars, gtvars>>
fframe == <<gvars, fltvars, extvars, rtvars, bvars, wvars, rpvars, cbvars, revars, gtvars>>
fltframe == <<gvars, fvars, extvars, rtvars, bvars, wvars, rpvars, cbvars, revars, gtvars>>
extframe == <<gvars, fvars, fltvars, rtvars, bvars, wvars, rpvars, cbvars, revars, gtvars>>
rtframe == <<gvars, fvars, fltvars, extvars, bvars, wvars, rpvars, cbvars, revars, gtvars>>
bframe == <<gvars, fvars, fltvars, extvars, rtvars, wvars, rpvars, cbvars, revars, gtvars>>
wframe == <<gvars, fvars, fltvars, extvars, rtvars, bvars, rpvars, cbvars, revars, gtvars>>
rpframe == <<gvars, fvars, fltvars, extvars, rtvars, bvars, wvars, cbvars, revars, gtvars>>
cbframe == <<gvars, fvars, fltvars, extvars, rtvars, bvars, wvars, rpvars, revars, gtvars>>
reframe == <<gvars, fvars, fltvars, extvars, rtvars, bvars, wvars, rpvars, cbvars, gtvars>>
gtframe == <<gvars, fvars, fltvars, extvars, rtvars, bvars, wvars, rpvars, cbvars, revars>>

\* asyncio.Semaphore(4)
SemaphoreLimit == 4

InFlight == {"scraping", "cleanup", "hung"}

\* Faulty variant: the gate admits a task whatever the number of free permits.
CanAcquireUngated == TRUE

\* `async with semaphore:` goes on without waiting when a permit is free.
CanAcquire == semaphore > 0

\* Faulty variant: a task that ends keeps its permit.
ReleaseNever(permits, ended) == permits

\* The end of the `async with semaphore:` block of the tasks that end,
\* whether by return or by an exception: each gives its permit back.
Release(permits, ended) == permits + ended

\* Faulty variant: gather called with return_exceptions=False.
return_exceptions_off == FALSE

\* asyncio.gather(*scraping_tasks, return_exceptions=True)
return_exceptions == TRUE

\* Faulty variant: one timer around the whole batch, cancelling every task.
TimeoutScopeBatch(u) == Urls

\* The tasks cancelled when the 30 s timer of URL u fires: wait_for wraps
\* the scrape of that URL alone.
TimeoutScope(u) == {u}

\* `except asyncio.TimeoutError: return ""`
TimeoutResult(u) == EmptyStr

\* What the call hands back when the finally block has run and no timeout
\* has fired: "" when html_content is empty or the cleaned text is shorter
\* than 200 characters, the extracted text, or the exception raised by
\* _extract_text_content_enhanced, which is called outside the try block.
\* A URL without http(s) scheme cannot be navigated to: html_content stays
\* empty.
ScrapeOutcomes(u) ==
    IF HasHttpScheme(UrlPool[u])
    THEN {EmptyStr, Text(u), Raised(u)}
    ELSE {EmptyStr}

\* Faulty variant: every string is kept, the empty ones too.
IsValidContentAnyStr(c) == c[1] = "str"

\* isinstance(c, str) and c
IsValidContent(c) == c[1] = "str" /\ c[2] # 0

\* valid_contents = [c for c in scraped_contents if isinstance(c, str) and c]
RECURSIVE ValidContents(_)
ValidContents(cs) ==
    IF cs = << >> THEN << >>
    ELSE (IF IsValidContent(Head(cs)) THEN <<Head(cs)>> ELSE << >>)
         \o ValidContents(Tail(cs))

\* Faulty variant: an exception of build() leaves gather_research_documents.
BuildErrorUncaught == FALSE

\* The try/except around build(): `except Exception ... return []`.
BuildErrorCaught == TRUE

\* Faulty variant: one task per link the searches returned.
ScrapeTargetsPerLink(fl) ==
    SelectSeq(Flatten(url_lists, Len(queries)), LAMBDA u : KeepUrl(UrlPool[u]))

\* scraping_tasks: one task per element of filtered_urls.
ScrapeTargets(fl) == fl

\* Faulty variant: one browser session at module level, used by every fetch.
NewSessionShared(made) == 1

\* `async with ... async_playwright() as p` and p.chromium.launch() in the
\* body of _scrape_single_url_enhanced: each call starts a driver and a
\* browser of its own, held in local variables.
NewSession(made) == made + 1

GInit ==
    /\ queries \in {[i \in 1..k |-> i] : k \in 0..MaxQueries}
    /\ web \in 0..MaxUrls
    /\ search_service = "none"
    /\ search_outcome = [q \in Queries |-> "none"]
    /\ url_lists = [q \in Queries |-> NoList]
    /\ all_urls = {}
    /\ filtered_urls = << >>
    /\ gpc = "called"
    /\ semaphore = SemaphoreLimit
    /\ waiters = << >>
    /\ tpc = [u \in Urls |-> "none"]
    /\ timed_out = [u \in Urls |-> FALSE]
    /\ scraped = [u \in Urls |-> NoValue]
    /\ fetch_calls = << >>
    /\ session = [u \in Urls |-> 0]
    /\ session_count = 0
    /\ scraped_contents = << >>
    /\ result = << >>

\* Lines 299-315: the check of the query list, the construction of the
\* search client, and the submission of one search per query to the
\* executor.  There is no await in between.
StartSearch ==
    /\ gpc = "called"
    /\ IF queries = << >>
       THEN /\ gpc' = "returned"
            /\ UNCHANGED <<search_service, search_outcome>>
       ELSE \E built \in BOOLEAN :
              /\ search_service' = (IF built THEN "built" ELSE "failed")
              /\ IF built
                 THEN /\ gpc' = "searching"
                      /\ search_outcome' =
                            [q \in Queries |->
                               IF q \in Range(queries) THEN "running" ELSE "none"]
                 ELSE /\ gpc' = (IF BuildErrorCaught THEN "returned" ELSE "raised")
                      /\ UNCHANGED search_outcome
    /\ UNCHANGED <<queries, web, url_lists, all_urls, filtered_urls, semaphore,
                   waiters, tpc, timed_out, scraped, fetch_calls, result,
                   scraped_contents>>
    /\ UNCHANGED sessvars
    /\ UNCHANGED gframe

\* _sync_google_search(query) ends in its executor thread: the request
\* succeeds, or raises HttpError, or raises something else.
Search(q) ==
    /\ gpc = "searching"
    /\ search_outcome[q] = "running"
    /\ \E outcome \in {"ok", "http_error", "error"} :
          /\ search_outcome' =
                [search_outcome EXCEPT
                    ![q] = IF outcome = "ok" THEN "ok" ELSE "failed"]
          /\ url_lists' = [url_lists EXCEPT ![q] =
                 SearchReturn(outcome, SearchItems(q, web, SEARCH_NUM_RESULTS))]
    /\ UNCHANGED <<queries, web, search_service, all_urls, filtered_urls, gpc,
                   semaphore, waiters, tpc, timed_out, scraped, fetch_calls,
                   result,
                   scraped_contents>>
    /\ UNCHANGED sessvars
    /\ UNCHANGED gframe

\* Lines 316-317: asyncio.gather(*search_tasks) returns when every search
\* has ended, and raises if one of them raised; all_urls is the set of the
\* URLs of all lists.
CollectUrls ==
    /\ gpc = "searching"
    /\ \A q \in Range(queries) : url_lists[q] # NoList
    /\ IF \E q \in Range(queries) : url_lists[q] = SearchRaised
       THEN /\ gpc' = "raised"
            /\ UNCHANGED all_urls
       ELSE /\ gpc' = "searched"
            /\ all_urls' = Range(Flatten(url_lists, Len(queries)))
    /\ UNCHANGED <<svars, filtered_urls, semaphore, waiters, tpc, timed_out,
                   scraped, fetch_calls, result,
                   scraped_contents>>
    /\ UNCHANGED sessvars
    /\ UNCHANGED gframe

\* Lines 318-363: the early returns, the filter, the creation of the tasks.
StartScraping ==
    /\ gpc = "searched"
    /\ LET fl == FilterUrls(all_urls) IN
       /\ filtered_urls' = (IF all_urls = {} THEN << >> ELSE fl)
       /\ IF all_urls = {} \/ fl = << >>
          THEN /\ gpc' = "returned"
               /\ UNCHANGED <<waiters, tpc>>
          ELSE /\ gpc' = "gathering"
               /\ waiters' = ScrapeTargets(fl)
               /\ tpc' = [u \in Urls |->
                            IF u \in Range(fl) THEN "waiting" ELSE "none"]
    /\ UNCHANGED <<all_urls, semaphore, timed_out, scraped, fetch_calls, result,
                   scraped_contents>>
    /\ UNCHANGED <<svars, sessvars>>
    /\ UNCHANGED gframe

\* `async with semaphore:` entered; _scrape_url_content(url) is called and
\* wait_for starts _scrape_single_url_enhanced and arms the 30 s timer.
Admit(u) ==
    /\ gpc = "gathering"
    /\ waiters # << >> /\ Head(waiters) = u
    /\ CanAcquire
    /\ semaphore' = semaphore - 1
    /\ waiters' = Tail(waiters)
    /\ tpc' = [tpc EXCEPT ![u] = "scraping"]
    /\ fetch_calls' = Append(fetch_calls, u)
    /\ session' = [session EXCEPT ![u] = NewSession(session_count)]
    /\ session_count' = session_count + 1
    /\ UNCHANGED <<all_urls, filtered_urls, gpc, timed_out, scraped, result,
                   scraped_contents>>
    /\ UNCHANGED svars
    /\ UNCHANGED gframe

\* The try body of _scrape_single_url_enhanced ends, normally or by an
\* exception that `except Exception` catches; the finally block starts.
BodyEnds(u) ==
    /\ tpc[u] = "scraping"
    /\ tpc' = [tpc EXCEPT ![u] = "cleanup"]
    /\ UNCHANGED <<all_urls, filtered_urls, gpc, semaphore, waiters, timed_out,
                   scraped, fetch_calls, result,
                   scraped_contents>>
    /\ UNCHANGED <<svars, sessvars>>
    /\ UNCHANGED gframe

\* A step of the finally block (unroute_all, context.close, browser.close)
\* never completes.  None of them is given a timeout.
CleanupHangs(u) ==
    /\ tpc[u] = "cleanup"
    /\ tpc' = [tpc EXCEPT ![u] = "hung"]
    /\ UNCHANGED <<all_urls, filtered_urls, gpc, semaphore, waiters, timed_out,
                   scraped, fetch_calls, result,
                   scraped_contents>>
    /\ UNCHANGED <<svars, sessvars>>
    /\ UNCHANGED gframe

\* The finally block is left and the call of _scrape_url_content ends:
\* after a timeout wait_for raises TimeoutError, which becomes "";
\* otherwise the call ends with one of ScrapeOutcomes.  Leaving the
\* `async with semaphore` block releases the permit.
CleanupEnds(u) ==
    /\ tpc[u] = "cleanup"
    /\ \E r \in (IF timed_out[u] THEN {TimeoutResult(u)} ELSE ScrapeOutcomes(u)) :
          scraped' = [scraped EXCEPT ![u] = r]
    /\ tpc' = [tpc EXCEPT ![u] = "done"]
    /\ semaphore' = Release(semaphore, 1)
    /\ UNCHANGED <<all_urls, filtered_urls, gpc, waiters, timed_out,
                   fetch_calls, result,
                   scraped_contents>>
    /\ UNCHANGED <<svars, sessvars>>
    /\ UNCHANGED gframe

\* The 30 s timer of wait_for fires for URL u: the inner task is cancelled
\* once.  In the try body the CancelledError runs into the finally block
\* (it is no Exception); in the finally block it escapes the
\* `except Exception` handlers and ends the task, whatever step it was in.
Timeout(u) ==
    /\ tpc[u] \in InFlight /\ ~timed_out[u]
    /\ LET hit == {v \in TimeoutScope(u) : tpc[v] \in InFlight /\ ~timed_out[v]}
           ended == {v \in hit : tpc[v] # "scraping"}
       IN  /\ timed_out' = [v \in Urls |-> timed_out[v] \/ v \in hit]
           /\ tpc' = [v \in Urls |->
                        IF v \in ended THEN "done"
                        ELSE IF v \in hit THEN "cleanup" ELSE tpc[v]]
           /\ scraped' = [v \in Urls |->
                            IF v \in ended THEN TimeoutResult(v) ELSE scraped[v]]
           /\ semaphore' = Release(semaphore, Cardinality(ended))
    /\ UNCHANGED <<all_urls, filtered_urls, gpc, waiters, fetch_calls, result,
                   scraped_contents>>
    /\ UNCHANGED <<svars, sessvars>>
    /\ UNCHANGED gframe

\* Faulty variant: the tasks that raised have no entry in the list.
GatherOutcomesWithoutFailures(urls, outcome) ==
    SelectSeq([i \in 1..Len(urls) |-> outcome[urls[i]]],
              LAMBDA c : c[1] # "exc")

\* asyncio.gather(*scraping_tasks, return_exceptions=True): the outcome of
\* the task of each URL, at the position of the URL.
GatherOutcomes(urls, outcome) ==
    [i \in 1..Len(urls) |-> outcome[urls[i]]]

\* asyncio.gather returns when every task has ended; lines 363-369.
GatherReturns ==
    /\ gpc = "gathering"
    /\ \A u \in Range(filtered_urls) : tpc[u] = "done"
    /\ LET contents == GatherOutcomes(filtered_urls, scraped)
       IN  IF return_exceptions \/ \A i \in 1..Len(contents) : contents[i][1] # "exc"
           THEN /\ gpc' = "returned"
                /\ scraped_contents' = contents
                /\ result' = ValidContents(contents)
           ELSE /\ gpc' = "raised"
                /\ scraped_contents' = << >>
                /\ result' = << >>
    /\ UNCHANGED <<all_urls, filtered_urls, semaphore, waiters, tpc, timed_out,
                   scraped, fetch_calls>>
    /\ UNCHANGED <<svars, sessvars>>
    /\ UNCHANGED gframe

TaskStep(u) ==
    \/ Admit(u)
    \/ BodyEnds(u)
    \/ CleanupHangs(u)
    \/ CleanupEnds(u)
    \/ Timeout(u)

GNext ==
    \/ StartSearch
    \/ \E q \in Queries : Search(q)
    \/ CollectUrls
    \/ StartScraping
    \/ \E u \in Urls : TaskStep(u)
    \/ GatherReturns

\* ------------------------------------------- one call of _scrape_url_content

\* The three awaits of the finally block, in order, and the handle each
\* one is guarded by (`if page:`, `if context:`, `if browser:`).
TeardownSteps == <<"unroute_all", "context_close", "browser_close">>

HandleOf(k) == CASE k = 1 -> page [] k = 2 -> context [] OTHER -> browser

\* The strategies of _scrape_with_fallback_strategy, in list order.
strategies == <<"fast", "standard", "patient">>

\* The selectors of _handle_cookie_banners, in list order.
cookie_selectors ==
    <<"button:has-text('Accept')", "button:has-text('Agree')",
      "button:has-text('OK')", "#onetrust-accept-btn-handler",
      "[id*='cookie'] button", "[class*='cookie'] button">>

\* The awaits between the start of the Playwright driver and the end of
\* the `async with` block.
SessionSteps ==
    {"launch", "new_context", "new_page", "route", "goto", "nav_content",
     "click", "cookie_wait", "content"}

\* Faulty variant: the TimeoutError of wait_for is not caught.
ReturnValuesTimeoutRaised(c, html) ==
    IF c THEN {Raised(url)}
    ELSE IF html = "" THEN {EmptyStr}
    ELSE {EmptyStr, Text(url), Raised(url)}

\* What _scrape_url_content hands to its caller once the finally block is
\* left.  c: the task was cancelled by wait_for, whose TimeoutError becomes
\* "" (lines 291-293).  Otherwise lines 282-284: "" for an empty
\* html_content, else what _extract_text_content_enhanced gives: "" (text
\* shorter than 200 characters), the text, or an exception of the parser,
\* which no handler of the call catches.
ReturnValues(c, html) ==
    IF c THEN {TimeoutResult(url)}
    ELSE IF html = "" THEN {EmptyStr}
    ELSE {EmptyStr, Text(url), Raised(url)}

\* The step the finally block goes on with after step k raised an error:
\* each step has its own try/except, so the next one.
AfterTeardownError(k) == k + 1

\* The first step of the finally block from k on whose handle is set; 4
\* when there is none.
RECURSIVE NextTeardown(_)
NextTeardown(k) ==
    IF k > 3 THEN 4
    ELSE IF HandleOf(k) THEN k
    ELSE NextTeardown(k + 1)

\* Go on with the finally block at step k, or leave it and return.
Leave(k, c) ==
    LET j == NextTeardown(k) IN
    IF j <= 3
    THEN /\ fpc' = TeardownSteps[j]
         /\ fresult' = fresult
    ELSE /\ fpc' = "done"
         /\ fresult' \in ReturnValues(c, html_content)

FInit ==
    /\ url \in Urls
    /\ fpc = "called"
    /\ pw = "off"
    /\ browser = FALSE
    /\ context = FALSE
    /\ page = FALSE
    /\ html_content = ""
    /\ strategy = 1
    /\ selector = 1
    /\ nav_log = << >>
    /\ nav_results = << >>
    /\ clicked = 0
    /\ cancelled = FALSE
    /\ torn_down = [k \in 1..3 |-> "no"]
    /\ fresult = NoValue

\* _scrape_url_content is called; wait_for starts the inner task, which
\* runs up to its first await, the entry of the `async with` block.  The
\* url is not looked at on the way.
Call ==
    /\ fpc = "called"
    /\ fpc' = "pw_start"
    /\ UNCHANGED <<url, pw, browser, context, page, html_content, strategy,
                   selector, nav_log, cancelled, torn_down, fresult>>
    /\ UNCHANGED <<nav_results, clicked>>
    /\ UNCHANGED fframe

\* `async with Stealth().use_async(async_playwright()) as p` is entered.
PwStart ==
    /\ fpc = "pw_start"
    /\ \/ /\ pw' = "running"
          /\ fpc' = "launch"
          /\ fresult' = fresult
       \/ /\ pw' = pw               \* the driver fails to start
          /\ Leave(1, cancelled)
    /\ UNCHANGED <<url, browser, context, page, html_content, strategy,
                   selector, nav_log, cancelled, torn_down>>
    /\ UNCHANGED <<nav_results, clicked>>
    /\ UNCHANGED fframe

\* browser = await p.chromium.launch(...)
Launch ==
    /\ fpc = "launch"
    /\ \/ browser' = TRUE /\ fpc' = "new_context"
       \/ browser' = browser /\ fpc' = "pw_exit"
    /\ UNCHANGED <<url, pw, context, page, html_content, strategy, selector,
                   nav_log, cancelled, torn_down, fresult>>
    /\ UNCHANGED <<nav_results, clicked>>
    /\ UNCHANGED fframe

\* context = await browser.new_context(...)
NewContext ==
    /\ fpc = "new_context"
    /\ \/ context' = TRUE /\ fpc' = "new_page"
       \/ context' = context /\ fpc' = "pw_exit"
    /\ UNCHANGED <<url, pw, browser, page, html_content, strategy, selector,
                   nav_log, cancelled, torn_down, fresult>>
    /\ UNCHANGED <<nav_results, clicked>>
    /\ UNCHANGED fframe

\* page = await context.new_page(); page.set_default_timeout(20000)
NewPage ==
    /\ fpc = "new_page"
    /\ \/ page' = TRUE /\ fpc' = "route"
       \/ page' = page /\ fpc' = "pw_exit"
    /\ UNCHANGED <<url, pw, browser, context, html_content, strategy, selector,
                   nav_log, cancelled, torn_down, fresult>>
    /\ UNCHANGED <<nav_results, clicked>>
    /\ UNCHANGED fframe

\* await page.route("**/*", _defensive_route_handler); then the first
\* iteration of the strategy loop runs up to page.goto.
Route ==
    /\ fpc = "route"
    /\ \/ fpc' = "goto" /\ strategy' = 1
       \/ fpc' = "pw_exit" /\ strategy' = strategy
    /\ UNCHANGED <<url, pw, browser, context, page, html_content, selector,
                   nav_log, cancelled, torn_down, fresult>>
    /\ UNCHANGED <<nav_results, clicked>>
    /\ UNCHANGED fframe

\* Faulty variant: a document of any length is accepted.
UsableAnyLength(content) == TRUE

\* `if len(content) > 500: return content`
Usable(content) == content = "long"

\* `except (PlaywrightTimeoutError, PlaywrightError)` in the strategy
\* loop: re-raised on the last strategy, else the next strategy is tried.
StrategyFailed ==
    IF strategy = Len(strategies)
    THEN fpc' = "pw_exit" /\ strategy' = strategy
    ELSE fpc' = "goto" /\ strategy' = strategy + 1

\* await page.goto(url, wait_until=..., timeout=...).  A URL without
\* http(s) scheme cannot be navigated to: the call raises.
Goto ==
    /\ fpc = "goto"
    /\ nav_log' = Append(nav_log, strategies[strategy])
    /\ \/ /\ HasHttpScheme(UrlPool[url])
          /\ fpc' = "nav_content" /\ strategy' = strategy
          /\ nav_results' = nav_results
       \/ /\ StrategyFailed
          /\ nav_results' = Append(nav_results, "error")
    /\ UNCHANGED <<url, pw, browser, context, page, html_content, selector,
                   cancelled, torn_down, fresult>>
    /\ UNCHANGED clicked
    /\ UNCHANGED fframe

\* content = await page.content(); `if len(content) > 500: return content`.
\* A short document lets the loop go on; after the last strategy the
\* function returns "" and the `if html_content:` block is skipped.
NavContent ==
    /\ fpc = "nav_content"
    /\ \/ \E content \in {"short", "long"} :
            /\ nav_results' = Append(nav_results, content)
            /\ IF Usable(content)
               THEN /\ html_content' = content
                    /\ fpc' = "click" /\ selector' = 1
                    /\ strategy' = strategy
               ELSE /\ html_content' = ""
                    /\ selector' = selector
                    /\ IF strategy = Len(strategies)
                       THEN fpc' = "pw_exit" /\ strategy' = strategy
                       ELSE fpc' = "goto" /\ strategy' = strategy + 1
       \/ /\ html_content' = html_content      \* page.content() raises
          /\ selector' = selector
          /\ nav_results' = Append(nav_results, "error")
          /\ StrategyFailed
    /\ UNCHANGED <<url, pw, browser, context, page, nav_log, cancelled,
                   torn_down, fresult>>
    /\ UNCHANGED clicked
    /\ UNCHANGED fframe

\* `except PlaywrightError: continue` in the selector loop; after the last
\* selector _handle_cookie_banners returns and page.content() is awaited.
SelectorFailed ==
    IF selector = Len(cookie_selectors)
    THEN fpc' = "content" /\ selector' = selector
    ELSE fpc' = "click" /\ selector' = selector + 1

\* await page.locator(selector).click(timeout=2000)
Click ==
    /\ fpc = "click"
    /\ \/ fpc' = "cookie_wait" /\ selector' = selector /\ clicked' = clicked + 1
       \/ SelectorFailed /\ clicked' = clicked
    /\ UNCHANGED <<url, pw, browser, context, page, html_content, strategy,
                   nav_log, cancelled, torn_down, fresult>>
    /\ UNCHANGED nav_results
    /\ UNCHANGED fframe

\* await page.wait_for_timeout(500); break.  The await is inside the same
\* try block as the click: an error of it goes on with the next selector.
CookieWait ==
    /\ fpc = "cookie_wait"
    /\ \/ fpc' = "content" /\ selector' = selector
       \/ SelectorFailed
    /\ UNCHANGED <<url, pw, browser, context, page, html_content, strategy,
                   nav_log, cancelled, torn_down, fresult>>
    /\ UNCHANGED <<nav_results, clicked>>
    /\ UNCHANGED fframe

\* html_content = await page.content() (line 257).  When it raises,
\* html_content keeps the document of the navigation.
Content ==
    /\ fpc = "content"
    /\ html_content' \in {"short", "long", html_content}
    /\ fpc' = "pw_exit"
    /\ UNCHANGED <<url, pw, browser, context, page, strategy, selector,
                   nav_log, cancelled, torn_down, fresult>>
    /\ UNCHANGED <<nav_results, clicked>>
    /\ UNCHANGED fframe

\* The `async with` block is left, normally or by an exception: the driver
\* is stopped, or stopping it fails.  Then `except Exception` logs the
\* exception, if there is one, and the finally block starts.
PwExit ==
    /\ fpc = "pw_exit"
    /\ pw' \in {"stopped", "running"}
    /\ Leave(1, cancelled)
    /\ UNCHANGED <<url, browser, context, page, html_content, strategy,
                   selector, nav_log, cancelled, torn_down>>
    /\ UNCHANGED <<nav_results, clicked>>
    /\ UNCHANGED fframe

\* A step of the finally block completes or raises an error, which its
\* `except Exception` logs.
Teardown(k) ==
    /\ fpc = TeardownSteps[k]
    /\ \/ /\ torn_down' = [torn_down EXCEPT ![k] = "ok"]
          /\ Leave(k + 1, cancelled)
       \/ /\ torn_down' = [torn_down EXCEPT ![k] = "error"]
          /\ Leave(AfterTeardownError(k), cancelled)
    /\ UNCHANGED <<url, pw, browser, context, page, html_content, strategy,
                   selector, nav_log, cancelled>>
    /\ UNCHANGED <<nav_results, clicked>>
    /\ UNCHANGED fframe

\* The 30 s timer of wait_for fires while the inner task is suspended in
\* an await: the task is cancelled, once.  The CancelledError passes the
\* `except` clauses of the body, runs through the exit of the `async with`
\* block and through the finally block; delivered in the finally block it
\* leaves the block at once.  wait_for waits for the task to end.
FetchTimeout ==
    /\ fpc \notin {"called", "done"}
    /\ ~cancelled
    /\ cancelled' = TRUE
    /\ IF fpc \in SessionSteps
       THEN fpc' = "pw_exit" /\ fresult' = fresult
       ELSE IF fpc \in {"pw_start", "pw_exit"}
       THEN Leave(1, TRUE)
       ELSE fpc' = "done" /\ fresult' \in ReturnValues(TRUE, html_content)
    /\ UNCHANGED <<url, pw, browser, context, page, html_content, strategy,
                   selector, nav_log, torn_down>>
    /\ UNCHANGED <<nav_results, clicked>>
    /\ UNCHANGED fframe

FNext ==
    \/ Call
    \/ PwStart
    \/ Launch
    \/ NewContext
    \/ NewPage
    \/ Route
    \/ Goto
    \/ NavContent
    \/ Click
    \/ CookieWait
    \/ Content
    \/ PwExit
    \/ \E k \in 1..3 : Teardown(k)
    \/ FetchTimeout

\* The values of the variables of the part of the model that is not run.
\* ----------------------------------------------------------- the URL filter

FltInit ==
    /\ flt_pc = "start"
    /\ flt_all_urls \in SUBSET (1..Len(UrlPool))
    /\ flt_filtered = << >>
    /\ flt_refiltered = << >>

\* Lines 340-345 applied to flt_all_urls.
Filter ==
    /\ flt_pc = "start"
    /\ flt_filtered' = FilterUrls(flt_all_urls)
    /\ flt_pc' = "filtered"
    /\ UNCHANGED <<flt_all_urls, flt_refiltered>>
    /\ UNCHANGED fltframe

\* Lines 340-345 applied to the URLs of flt_filtered.
FilterAgain ==
    /\ flt_pc = "filtered"
    /\ flt_refiltered' = FilterUrls(Range(flt_filtered))
    /\ flt_pc' = "refiltered"
    /\ UNCHANGED <<flt_all_urls, flt_filtered>>
    /\ UNCHANGED fltframe

FltNext == Filter \/ FilterAgain

\* ------------------------------------------- _extract_text_content_enhanced

\* At most MaxMatches selectors of content_selectors match an element of
\* the document.
MaxMatches == 2

content_selectors ==
    <<".blog-post-content", ".trend-analysis", ".fashion-content",
      ".post-content", ".article-content", ".blog-content", "article", "main",
      "[role=\"main\"]", ".main-content", "#main-content", "#content", ".content",
      ".article-body", ".post-body", ".entry-content", ".blog-post",
      ".container", ".wrapper", "#wrapper">>

Selectors == 1..Len(content_selectors)

\* len(main_content.get_text(strip=True)) > 300
MinRootChars == 300

\* len(cleaned_text) < 200
MinTextChars == 200

\* cleaned_text[:50000]
MaxTextChars == 50000

\* The sets of at most k selectors.
RECURSIVE SelectorSets(_)
SelectorSets(k) ==
    IF k = 0 THEN {{}}
    ELSE LET P == SelectorSets(k - 1)
         IN  P \cup {S \cup {i} : S \in P, i \in Selectors}

\* The documents: the selectors of S match an element, those of L an
\* element with more than 300 characters of text.
Documents ==
    UNION {{[i \in Selectors |->
                IF i \in L THEN "long" ELSE IF i \in S THEN "short" ELSE "none"]
            : L \in SUBSET S} : S \in SelectorSets(MaxMatches)}

\* The loop of lines 125-131 from selector i on, main_content being what
\* the selector before i matched (0: None).  The result is main_content
\* when the loop is left.
RECURSIVE SelectorLoop(_, _, _)
SelectorLoop(doc, i, main_content) ==
    IF i > Len(content_selectors) THEN main_content
    ELSE IF doc[i] = "long" THEN i
         ELSE SelectorLoop(doc, i + 1, IF doc[i] = "none" THEN 0 ELSE i)

\* target_soup = main_content if main_content else soup
TargetSoup(doc) == SelectorLoop(doc, 1, 0)

\* The lengths the cleaned text of a root can have.  An element with at
\* most 300 characters of stripped text has less than twice as many once
\* its strings are joined by single blanks; junk removal and the removal
\* of the share/subscribe phrases only shorten a text.
CleanedLengths(doc, root) ==
    IF root # 0 /\ doc[root] = "short"
    THEN {0, MinTextChars - 1, MinTextChars, 2 * MinRootChars - 1}
    ELSE {0, MinTextChars - 1, MinTextChars, MinTextChars + 1,
          MaxTextChars - 1, MaxTextChars, MaxTextChars + 1, 2 * MaxTextChars}

\* Faulty variant: the text is returned whole.
ReturnedLengthUncut(n) == IF n < MinTextChars THEN 0 ELSE n

\* Lines 194-200: "" for a cleaned text of less than 200 characters, else
\* its first 50000 characters.
ReturnedLength(n) ==
    IF n < MinTextChars THEN 0
    ELSE IF n > MaxTextChars THEN MaxTextChars ELSE n

ExtInit ==
    /\ epc = "parsed"
    /\ soup \in Documents
    /\ target_soup = 0
    /\ cleaned_text = 0
    /\ extracted = 0

\* Lines 124-133: the selector loop and the choice of the root.
SelectRoot ==
    /\ epc = "parsed"
    /\ target_soup' = TargetSoup(soup)
    /\ epc' = "rooted"
    /\ UNCHANGED <<soup, cleaned_text, extracted>>
    /\ UNCHANGED extframe

\* Lines 135-200: junk removal, get_text, the two re.sub, the length
\* check and the slice.
CleanAndReturn ==
    /\ epc = "rooted"
    /\ \E n \in CleanedLengths(soup, target_soup) :
          /\ cleaned_text' = n
          /\ extracted' = ReturnedLength(n)
    /\ epc' = "returned"
    /\ UNCHANGED <<soup, target_soup>>
    /\ UNCHANGED extframe

ExtNext == SelectRoot \/ CleanAndReturn

\* --------------------------------------------------- _defensive_route_handler

\* A page issues at most MaxRequests requests.
MaxRequests == 2

\* Values of request.resource_type.
ResourceTypes ==
    {"document", "stylesheet", "image", "media", "font", "script", "xhr",
     "websocket"}

\* The set of line 207: the resource types the handler aborts.
blocked_resource_types == {"image", "font", "media", "websocket"}

\* `await route.abort()` for a blocked type, else `await route.continue_()`.
RouteCallFor(resource_type) ==
    IF resource_type \in blocked_resource_types THEN "abort" ELSE "continue"

\* No exception.
NoError == [cause |-> "none", message |-> << >>]

\* str(e) of the exceptions a route call raises when the page, the context
\* or the browser is closed, cut at the places where a keyword can match.
ClosedTargetMessages ==
    {<<"Route.abort: ", "Target page", ", context or browser has been closed">>,
     <<"Route.continue: ", "Target page",
       ", context or browser has been closed">>,
     <<"Target closed">>}

\* str(e) of the other exceptions of a route call.
OtherMessages ==
    {<<"Route is already handled!">>,
     <<"Protocol error (Fetch.continueRequest): Invalid header">>}

\* Faulty variant: the keyword list of an empty handler.
benign_keywords_none == {}

\* The keyword list of lines 216-222.
benign_keywords ==
    {"Target page", "Target closed", "TargetClosedError", "context disposed",
     "browser closed"}

\* any(keyword in error_message for keyword in [...]).
IsBenign(error_message) ==
    \E keyword \in benign_keywords : Contains(error_message, keyword)

\* How the handler ends for an exception of the route call: `return` for
\* a benign one, `raise` for any other.
HandlerEnd(e) ==
    IF e.cause = "none" THEN "returned"
    ELSE IF IsBenign(e.message) THEN "swallowed" ELSE "raised"

RtInit ==
    /\ requests \in UNION {[1..n -> ResourceTypes] : n \in 1..MaxRequests}
    /\ route_calls = [i \in 1..MaxRequests |-> << >>]
    /\ handled = [i \in 1..MaxRequests |-> "pending"]
    /\ route_error = [i \in 1..MaxRequests |-> NoError]
    /\ target_closed = FALSE

\* The handler is called for request i and runs up to its await: abort
\* or continue_ is called on the route.
RouteCall(i) ==
    /\ i <= Len(requests)
    /\ handled[i] = "pending"
    /\ route_calls' = [route_calls EXCEPT
                          ![i] = Append(@, RouteCallFor(requests[i]))]
    /\ handled' = [handled EXCEPT ![i] = "calling"]
    /\ UNCHANGED <<requests, route_error, target_closed>>
    /\ UNCHANGED rtframe

\* The call on the route ends: normally; or, the target being closed,
\* with the exception that says so; or with another exception.  The
\* handler returns, swallows the exception or re-raises it (lines 211-229).
RouteCallEnds(i) ==
    /\ i <= Len(requests)
    /\ handled[i] = "calling"
    /\ \E e \in (IF target_closed
                 THEN {[cause |-> "closed", message |-> m] :
                          m \in ClosedTargetMessages}
                 ELSE {NoError} \cup {[cause |-> "other", message |-> m] :
                                         m \in OtherMessages}) :
          /\ route_error' = [route_error EXCEPT ![i] = e]
          /\ handled' = [handled EXCEPT ![i] = HandlerEnd(e)]
    /\ UNCHANGED <<requests, route_calls, target_closed>>
    /\ UNCHANGED rtframe

\* The session is torn down while requests are in flight.
CloseTarget ==
    /\ ~target_closed
    /\ target_closed' = TRUE
    /\ UNCHANGED <<requests, route_calls, handled, route_error>>
    /\ UNCHANGED rtframe

RtNext ==
    \/ \E i \in 1..MaxRequests : RouteCall(i)
    \/ \E i \in 1..MaxRequests : RouteCallEnds(i)
    \/ CloseTarget

\* ------------------------------------------------------ _run_tasks_in_batches

\* The call gets at most MaxTasks tasks and a batch size of at most
\* MaxBatchSize.
MaxTasks == 5

MaxBatchSize == 3

Tasks == 1..MaxTasks

\* What a task ends with: its result, or the exception it raised.
Res(t) == <<"res", t>>
Err(t) == <<"err", t>>

\* batch = tasks[i : i + batch_size]
Batch(ts, i, size) ==
    SubSeq(ts, i + 1, IF i + size < Len(ts) THEN i + size ELSE Len(ts))

\* Faulty variant: the results of a batch in the order its tasks ended.
GatherResultsAsCompleted(batch, ended) ==
    LET done == SelectSeq(ended, LAMBDA t : t \in Range(batch))
    IN  [k \in 1..Len(done) |-> Res(done[k])]

\* batch_results = await asyncio.gather(*batch): the results in the order
\* of the awaitables, whatever order they ended in.
GatherResults(batch, ended) == [k \in 1..Len(batch) |-> Res(batch[k])]

\* Faulty variant: the delay is taken after every batch.
MoreBatchesAlways(i, size, n) == TRUE

\* `if i + batch_size < len(tasks):` before asyncio.sleep
MoreBatches(i, size, n) == i + size < n

BInit ==
    /\ tasks \in {[i \in 1..n |-> i] : n \in 0..MaxTasks}
    /\ batch_size \in 1..MaxBatchSize
    /\ bpc = "loop"
    /\ batch_start = 0
    /\ task_state = [t \in Tasks |-> "created"]
    /\ finished = << >>
    /\ all_results = << >>
    /\ sleeps = 0

\* `for i in range(0, len(tasks), batch_size)`: the next iteration runs up
\* to asyncio.gather(*batch), which starts every task of the batch; after
\* the last iteration the function returns all_results.
NextBatch ==
    /\ bpc = "loop"
    /\ IF batch_start < Len(tasks)
       THEN /\ bpc' = "gathering"
            /\ task_state' =
                  [t \in Tasks |->
                     IF t \in Range(Batch(tasks, batch_start, batch_size))
                     THEN "running" ELSE task_state[t]]
       ELSE /\ bpc' = "returned"
            /\ UNCHANGED task_state
    /\ UNCHANGED <<tasks, batch_size, batch_start, finished, all_results, sleeps>>
    /\ UNCHANGED bframe

\* A running task ends, with a result or with an exception.
TaskEnds(t) ==
    /\ task_state[t] = "running"
    /\ \E outcome \in {"done", "failed"} :
          task_state' = [task_state EXCEPT ![t] = outcome]
    /\ finished' = Append(finished, t)
    /\ UNCHANGED <<tasks, batch_size, bpc, batch_start, all_results, sleeps>>
    /\ UNCHANGED bframe

\* asyncio.gather returns when every task of the batch has ended with a
\* result; lines 161-166.
BatchDone ==
    /\ bpc = "gathering"
    /\ LET batch == Batch(tasks, batch_start, batch_size) IN
       /\ \A t \in Range(batch) : task_state[t] = "done"
       /\ all_results' = all_results \o GatherResults(batch, finished)
    /\ IF MoreBatches(batch_start, batch_size, Len(tasks))
       THEN /\ bpc' = "sleeping"
            /\ UNCHANGED batch_start
       ELSE /\ bpc' = "loop"
            /\ batch_start' = batch_start + batch_size
    /\ UNCHANGED <<tasks, batch_size, task_state, finished, sleeps>>
    /\ UNCHANGED bframe

\* asyncio.gather is called without return_exceptions: the first exception
\* of a task is raised in _run_tasks_in_batches, which has no handler; the
\* other tasks of the batch go on running.
BatchRaises ==
    /\ bpc = "gathering"
    /\ \E t \in Range(Batch(tasks, batch_start, batch_size)) :
          task_state[t] = "failed"
    /\ bpc' = "raised"
    /\ UNCHANGED <<tasks, batch_size, batch_start, task_state, finished,
                   all_results, sleeps>>
    /\ UNCHANGED bframe

\* await asyncio.sleep(delay_seconds) completes.
SleepEnds ==
    /\ bpc = "sleeping"
    /\ sleeps' = sleeps + 1
    /\ batch_start' = batch_start + batch_size
    /\ bpc' = "loop"
    /\ UNCHANGED <<tasks, batch_size, task_state, finished, all_results>>
    /\ UNCHANGED bframe

BNext ==
    \/ NextBatch
    \/ \E t \in Tasks : TaskEnds(t)
    \/ BatchDone
    \/ BatchRaises
    \/ SleepEnds

\* -------------------------------------------------------- run_creative_process

\* A run scrapes at most MaxDocs documents.
MaxDocs == 2

\* Python's truth value of an Optional[str]: None and "" are false.
Truthy(s) == s \notin {"None", ""}

\* str.strip() on the theme hints of the model.
Strip(s) == IF s = "  " THEN "" ELSE s

\* `not theme_hint or not theme_hint.strip()`.
ThemeMissing(theme) == ~Truthy(theme) \/ ~Truthy(Strip(theme))

\* Faulty variant: the months up to August only.
SeasonForMonthOffByOne(current_month) ==
    IF 4 <= current_month /\ current_month < 9
    THEN "Spring/Summer" ELSE "Fall/Winter"

\* "Spring/Summer" if 4 <= current_month <= 9 else "Fall/Winter".
SeasonForMonth(current_month) ==
    IF 4 <= current_month /\ current_month <= 9
    THEN "Spring/Summer" ELSE "Fall/Winter"

\* `if not season:` the season of the current month.
DefaultSeason(given, current_month) ==
    IF ~Truthy(given) THEN SeasonForMonth(current_month) ELSE given

\* `if not year:` the current year.
DefaultYear(given, current_year) ==
    IF given = 0 THEN current_year ELSE given

\* A query is the f-string that built it and the values that went into it;
\* a part that is not in the f-string is "" (0 for the year), and the
\* optional parts are token lists.
Query(tier, s, y, theme, region_part, audience_part, r) ==
    [tier |-> tier, season |-> s, year |-> y, theme_hint |-> theme,
     region_search_query |-> region_part, audience_query |-> audience_part,
     region |-> r]

\* Faulty variant: the two regional queries are always in the list.
GenerateSearchQueriesUnguarded(s, y, theme, audience, r) ==
    LET audience_query == IF Truthy(audience) THEN <<" for ", audience>>
                                              ELSE << >>
        region_search_query == IF Truthy(r) THEN <<" in ", r>> ELSE << >>
        tier1_query == Query("tier1", s, y, theme, region_search_query,
                             << >>, "")
        tier2_query == Query("tier2", s, y, theme, << >>, << >>, "")
        tier3_query1 == Query("tier3_1", s, y, theme, region_search_query,
                              << >>, "")
        tier3_query2 == Query("tier3_2", "", 0, theme, region_search_query,
                              audience_query, "")
        tier4_query1 == Query("tier4_1", "", 0, theme, region_search_query,
                              << >>, "")
        tier4_query2 == Query("tier4_2", "", 0, theme, << >>, << >>, "")
        tier4_query3 == Query("tier4_3", "", 0, "", << >>, << >>, r)
        tier4_query4 == Query("tier4_4", "", y, "", << >>, << >>, r)
    IN  <<tier1_query, tier2_query, tier3_query1, tier3_query2,
          tier4_query1, tier4_query2>> \o <<tier4_query3, tier4_query4>>

\* _generate_search_queries.
GenerateSearchQueries(s, y, theme, audience, r) ==
    LET audience_query == IF Truthy(audience) THEN <<" for ", audience>>
                                              ELSE << >>
        region_search_query == IF Truthy(r) THEN <<" in ", r>> ELSE << >>
        tier1_query == Query("tier1", s, y, theme, region_search_query,
                             << >>, "")
        tier2_query == Query("tier2", s, y, theme, << >>, << >>, "")
        tier3_query1 == Query("tier3_1", s, y, theme, region_search_query,
                              << >>, "")
        tier3_query2 == Query("tier3_2", "", 0, theme, region_search_query,
                              audience_query, "")
        tier4_query1 == Query("tier4_1", "", 0, theme, region_search_query,
                              << >>, "")
        tier4_query2 == Query("tier4_2", "", 0, theme, << >>, << >>, "")
        tier4_query3 == Query("tier4_3", "", 0, "", << >>, << >>, r)
        tier4_query4 == Query("tier4_4", "", y, "", << >>, << >>, r)
    IN  <<tier1_query, tier2_query, tier3_query1, tier3_query2,
          tier4_query1, tier4_query2>>
        \o (IF Truthy(r) THEN <<tier4_query3, tier4_query4>> ELSE << >>)

\* Faulty variant: the run goes on whatever the research returned.
NoDocumentsIgnored(n) == FALSE

\* `if not scraped_documents:`.
NoDocuments(n) == n = 0

\* n copies of the event e.
Repeat(e, n) == [k \in 1..n |-> e]

\* The replacement fields of the templates of prompts/prompt_library.py.
ITEMIZED_REPORT_PROMPT == {"research_context", "season", "year", "region"}

INSPIRATION_BOARD_PROMPT_TEMPLATE ==
    {"theme", "key_piece_name", "model_style", "region", "regional_context",
     "color_names", "fabric_names"}

\* str.format(**kwargs) raises KeyError for a field of the template that
\* has no keyword argument; arguments the template does not name are
\* ignored.
FormatRaises(template, kwargs) == ~(template \subseteq kwargs)

\* _generate_final_prompts(report) raises: a report without key pieces
\* returns {} before any template is formatted; otherwise the first
\* format call is that of the inspiration board.
FinalPromptsRaise(cached) ==
    /\ cached = "valid"
    /\ FormatRaises(INSPIRATION_BOARD_PROMPT_TEMPLATE,
                    {"theme", "key_piece_name", "cultural_drivers",
                     "model_style"})

WInit ==
    /\ args \in [theme_hint : {"None", "", "  ", "Quiet Luxury"},
                 season : {"None", "", "Spring/Summer", "Resort"},
                 year : {0, 2025},
                 target_audience : {"None", "Gen Z"},
                 region : {"None", "", "Dhaka"}]
    /\ now \in [month : 1..12, year : {2026}]
    /\ season = args.season
    /\ year = args.year
    /\ wpc = "called"
    /\ cached_report = "None"
    /\ wqueries = << >>
    /\ scraped_documents = 0
    /\ valid_summaries = 0
    /\ validated_report = FALSE
    /\ events = << >>

\* Lines 185-204: the theme hint is required; a missing season or year is
\* filled in from the clock.
PrepareBrief ==
    /\ wpc = "called"
    /\ IF ThemeMissing(args.theme_hint)
       THEN /\ wpc' = "halted"
            /\ UNCHANGED <<season, year>>
       ELSE /\ season' = DefaultSeason(season, now.month)
            /\ year' = DefaultYear(year, now.year)
            /\ wpc' = "check_cache"
    /\ UNCHANGED <<args, now, cached_report, wqueries, scraped_documents,
                   valid_summaries, validated_report, events>>
    /\ UNCHANGED wframe

\* Line 209: cache_service.check_cache(theme_hint) returns a stored report
\* or None.
CheckCache ==
    /\ wpc = "check_cache"
    /\ events' = Append(events, "check_cache")
    /\ \E found \in {"None", "valid", "valid_no_pieces", "invalid"} :
          /\ cached_report' = found
          /\ wpc' = IF found = "None" THEN "research" ELSE "cached"
    /\ UNCHANGED <<args, now, season, year, wqueries, scraped_documents,
                   valid_summaries, validated_report>>
    /\ UNCHANGED wframe

\* What _save_json_to_results leaves in the log: it returns True when the
\* file is written and False when it is not, and never raises.
SaveEvents(filename) == {"save:" \o filename, "save_failed:" \o filename}

\* Lines 211-231: a cached report that parses and validates ("valid": with
\* key pieces, "valid_no_pieces": with none) is saved, its prompts are
\* generated and saved, and the run returns; any exception on the way is
\* caught and sends the run on to the full workflow.
UseCachedReport ==
    /\ wpc = "cached"
    /\ IF cached_report = "invalid"
       THEN /\ wpc' = "research"
            /\ UNCHANGED <<events, validated_report>>
       ELSE /\ validated_report' = TRUE
            /\ \E report_saved \in SaveEvents("trend_report") :
                  IF FinalPromptsRaise(cached_report)
                  THEN /\ events' = Append(events, report_saved)
                       /\ wpc' = "research"
                  ELSE \E prompts_saved \in SaveEvents("prompts") :
                          /\ events' = events \o <<report_saved, prompts_saved>>
                          /\ wpc' = "completed"
    /\ UNCHANGED <<args, now, season, year, cached_report, wqueries,
                   scraped_documents, valid_summaries>>
    /\ UNCHANGED wframe

\* Lines 233-240: the queries are generated, the research client is awaited,
\* and the run halts when it returned no document.
Research ==
    /\ wpc = "research"
    /\ wqueries' = GenerateSearchQueries(season, year, args.theme_hint,
                                         args.target_audience, args.region)
    /\ events' = Append(events, "gather_research_documents")
    /\ \E n \in 0..MaxDocs :
          /\ scraped_documents' = n
          /\ wpc' = IF NoDocuments(n) THEN "halted" ELSE "summarize"
    /\ UNCHANGED <<args, now, season, year, cached_report, valid_summaries,
                   validated_report>>
    /\ UNCHANGED wframe

\* Lines 245-266: one summarization request per document; the run halts
\* when no summary is usable.
Summarize ==
    /\ wpc = "summarize"
    /\ events' = events \o Repeat("generate_text_async", scraped_documents)
    /\ \E n \in 0..scraped_documents :
          /\ valid_summaries' = n
          /\ wpc' = IF n = 0 THEN "halted" ELSE "synthesize"
    /\ UNCHANGED <<args, now, season, year, cached_report, wqueries,
                   scraped_documents, validated_report>>
    /\ UNCHANGED wframe

\* Lines 268-275: the final prompt is formatted and the synthesis request
\* made.  The format call raises KeyError, which nothing in
\* run_creative_process catches: the run ends with that exception and
\* lines 275-344 (the synthesis request, the validation, the correction,
\* the saving and the cache insertion) are never reached.
Synthesize ==
    /\ wpc = "synthesize"
    /\ IF FormatRaises(ITEMIZED_REPORT_PROMPT,
                       {"research_context", "season", "year"})
       THEN /\ wpc' = "raised"
            /\ UNCHANGED events
       ELSE /\ wpc' = "synthesized"
            /\ events' = Append(events, "generate_structured_json")
    /\ UNCHANGED <<args, now, season, year, cached_report, wqueries,
                   scraped_documents, valid_summaries, validated_report>>
    /\ UNCHANGED wframe

WNext ==
    \/ PrepareBrief
    \/ CheckCache
    \/ UseCachedReport
    \/ Research
    \/ Summarize
    \/ Synthesize

\* ----------------------------------------------------------- save_scraping_report

\* A call is given at most MaxResults results.
MaxResults == 3

\* dict.get(key, default).
Get(res, key, default) == IF key \in DOMAIN res THEN res[key] ELSE default

\* A result of URL number i: a dict with the key "url", with the key
\* "status" unless status is "absent", and with the key "content" when
\* with_content holds.
ResultDict(i, status, with_content) ==
    [key \in {"url"} \cup (IF status = "absent" THEN {} ELSE {"status"})
                     \cup (IF with_content THEN {"content"} ELSE {})
        |-> CASE key = "url" -> i
              [] key = "status" -> status
              [] OTHER -> "text"]

\* The statuses a result can carry: the three of the report, one the report
\* does not know, and none at all.
Statuses == {"success", "partial", "failed", "timeout", "absent"}

\* Faulty variant: a result with an unknown status is in no list.
BucketOfKnownOnly(status) ==
    CASE status = "success" -> "successful_scrapes"
      [] status = "partial" -> "partial_scrapes"
      [] status = "failed" -> "failed_scrapes"
      [] OTHER -> "none"

\* The if / elif / else on the status.
BucketOf(status) ==
    CASE status = "success" -> "successful_scrapes"
      [] status = "partial" -> "partial_scrapes"
      [] OTHER -> "failed_scrapes"

\* The entry appended to a list of the report.
ReportEntry(bucket, res) ==
    CASE bucket = "successful_scrapes" ->
            [url |-> Get(res, "url", 0), status |-> "success",
             content |-> Get(res, "content", "")]
      [] bucket = "partial_scrapes" ->
            [url |-> Get(res, "url", 0), status |-> "partial",
             reason |-> Get(res, "reason", "None"),
             content |-> Get(res, "content", "")]
      [] OTHER ->
            [url |-> Get(res, "url", 0), status |-> "failed",
             reason |-> Get(res, "reason", "Unknown failure")]

RpInit ==
    /\ \E n \in 0..MaxResults :
          results \in [1..n -> {ResultDict(0, s, c) :
                                  s \in Statuses, c \in BOOLEAN}]
    /\ processed = 0
    /\ report = [successful_scrapes |-> << >>, partial_scrapes |-> << >>,
                 failed_scrapes |-> << >>]
    /\ report_pc = "loop"
    /\ saved = FALSE

\* One iteration of `for res in results`; the result takes the number of
\* its place as its URL.
ReportResult ==
    /\ report_pc = "loop"
    /\ processed < Len(results)
    /\ LET res == [results[processed + 1] EXCEPT !["url"] = processed + 1]
           status == Get(res, "status", "failed")
           bucket == BucketOf(status)
       IN  report' = IF bucket \in DOMAIN report
                     THEN [report EXCEPT
                              ![bucket] = Append(@, ReportEntry(bucket, res))]
                     ELSE report
    /\ processed' = processed + 1
    /\ UNCHANGED <<results, report_pc, saved>>
    /\ UNCHANGED rpframe

\* `return save_json_to_results(report, "scraping_report.json")`: True, or
\* False when the file could not be written.
SaveScrapingReport ==
    /\ report_pc = "loop"
    /\ processed = Len(results)
    /\ report_pc' = "returned"
    /\ saved' \in BOOLEAN
    /\ UNCHANGED <<results, processed, report>>
    /\ UNCHANGED rpframe

RpNext ==
    \/ ReportResult
    \/ SaveScrapingReport

\* ------------------------------------------------------------- CircuitBreaker

\* At most MaxCalls calls go through the breaker, within MaxTicks ticks of
\* the clock.
MaxCalls == 9
MaxTicks == 8

\* The breaker of line 400: CircuitBreaker(failure_threshold=5,
\* recovery_timeout=180).
failure_threshold == 5
recovery_timeout == 180

\* The clock moves in ticks of a minute and a half.
Seconds(ticks) == 90 * ticks

\* The time func takes, and the time between two calls.
Durations == {Seconds(0), Seconds(1), Seconds(2)}

\* The condition of lines 365-368: a failure time is recorded and more than
\* recovery_timeout seconds lie between it and current_time.
RecoveryElapsed(current_time) ==
    last_failure_time # 0 /\ current_time - last_failure_time > recovery_timeout

\* Faulty variant: one success closes the breaker.
RecoveredAfterOne(successes) == successes >= 1

\* `if self.consecutive_successes >= 3`.
Recovered(successes) == successes >= 3

CbInit ==
    /\ state = "CLOSED"
    /\ failure_count = 0
    /\ last_failure_time = 0
    /\ consecutive_successes = 0
    /\ clock = 1
    /\ calls = 0
    /\ last_call = "none"
    /\ failed_at = 0
    /\ failures_in_a_row = 0
    /\ successes_in_a_row = 0
    /\ invoked_in = "none"

\* Time passes between two calls.
Elapse ==
    /\ clock + Seconds(1) <= 1 + Seconds(MaxTicks)
    /\ clock' = clock + Seconds(1)
    /\ UNCHANGED <<state, failure_count, last_failure_time,
                   consecutive_successes, calls, last_call, failed_at,
                   failures_in_a_row, successes_in_a_row, invoked_in>>
    /\ UNCHANGED cbframe

\* Lines 364-377: a call on an OPEN breaker whose recovery time has not
\* elapsed raises RuntimeError; func is not invoked.
CallRejected ==
    /\ calls < MaxCalls
    /\ state = "OPEN" /\ ~RecoveryElapsed(clock)
    /\ calls' = calls + 1
    /\ last_call' = "rejected"
    /\ UNCHANGED <<state, failure_count, last_failure_time,
                   consecutive_successes, clock, failed_at, failures_in_a_row,
                   successes_in_a_row, invoked_in>>
    /\ UNCHANGED cbframe

\* Lines 363-387: current_time is read, an OPEN breaker whose recovery time
\* has elapsed becomes HALF_OPEN, func is invoked, takes some time and
\* returns.
CallSucceeds ==
    /\ calls < MaxCalls
    /\ state = "OPEN" => RecoveryElapsed(clock)
    /\ \E duration \in Durations :
          /\ clock + duration <= 1 + Seconds(MaxTicks)
          /\ clock' = clock + duration
    /\ LET entered == IF state = "OPEN" THEN "HALF_OPEN" ELSE state
       IN  IF entered = "HALF_OPEN"
           THEN IF Recovered(consecutive_successes + 1)
                THEN /\ state' = "CLOSED"
                     /\ failure_count' = 0
                     /\ consecutive_successes' = 0
                ELSE /\ state' = entered
                     /\ consecutive_successes' = consecutive_successes + 1
                     /\ UNCHANGED failure_count
           ELSE /\ state' = entered
                /\ UNCHANGED <<failure_count, consecutive_successes>>
    /\ calls' = calls + 1
    /\ last_call' = "ok"
    /\ failures_in_a_row' = 0
    /\ successes_in_a_row' = successes_in_a_row + 1
    /\ invoked_in' = IF state = "OPEN" THEN "HALF_OPEN" ELSE state
    /\ UNCHANGED <<last_failure_time, failed_at>>
    /\ UNCHANGED cbframe

\* Lines 363-379 and 388-397: as above, but func raises after some time;
\* the failure is counted, current_time (read before func was invoked) is
\* recorded, and the breaker opens at failure_threshold.
CallFails ==
    /\ calls < MaxCalls
    /\ state = "OPEN" => RecoveryElapsed(clock)
    /\ \E duration \in Durations :
          /\ clock + duration <= 1 + Seconds(MaxTicks)
          /\ clock' = clock + duration
    /\ LET entered == IF state = "OPEN" THEN "HALF_OPEN" ELSE state
           current_time == clock
       IN  /\ failure_count' = failure_count + 1
           /\ last_failure_time' = current_time
           /\ consecutive_successes' = 0
           /\ state' = IF failure_count + 1 >= failure_threshold
                       THEN "OPEN" ELSE entered
    /\ failed_at' = clock'
    /\ calls' = calls + 1
    /\ last_call' = "failed"
    /\ failures_in_a_row' = failures_in_a_row + 1
    /\ successes_in_a_row' = 0
    /\ invoked_in' = IF state = "OPEN" THEN "HALF_OPEN" ELSE state
    /\ UNCHANGED cbframe

CbNext ==
    \/ Elapse
    \/ CallRejected
    \/ CallSucceeds
    \/ CallFails

\* --------------------------------------------------------- _retry_with_backoff

\* The default of the decorator, which every use of it takes.
max_retries == 5

\* str(error) of the exceptions func raises, cut at the places where a
\* pattern of _should_retry can match.
ErrorMessages ==
    {<<"503", " UNAVAILABLE">>,
     <<"Connection ", "Timeout">>,
     <<"400", " API key not valid">>,
     <<"Permission denied">>}

\* str.lower() on a piece of a message.
LowerWord(t) ==
    CASE t = " UNAVAILABLE" -> " unavailable"
      [] t = "Connection " -> "connection "
      [] t = "Timeout" -> "timeout"
      [] t = " API key not valid" -> " api key not valid"
      [] t = "Permission denied" -> "permission denied"
      [] OTHER -> t

\* str(error).lower()
LowerMessage(message) == [i \in 1..Len(message) |-> LowerWord(message[i])]

retryable_codes == {"500", "502", "503", "504", "429", "internal"}

retryable_messages ==
    {"internal error", "internal server error", "timeout",
     "temporarily unavailable", "rate limit", "quota exceeded",
     "service unavailable", "backend error", "an internal error has occurred"}

\* _should_retry.
ShouldRetry(error) ==
    \/ \E code \in retryable_codes : Contains(LowerMessage(error), code)
    \/ \E msg \in retryable_messages : Contains(LowerMessage(error), msg)

\* Faulty variant: only the last attempt ends the loop.
BreaksLoopAtLimitOnly(n, error) == n = max_retries

\* The two `break`s of the except block: the last attempt, or an error
\* that is not retryable.
BreaksLoop(n, error) == n = max_retries \/ ~ShouldRetry(error)

ReInit ==
    /\ attempt = 0
    /\ retry_pc = "loop"
    /\ attempts = << >>
    /\ last_exception = << >>
    /\ retry_result = 0
    /\ retry_raised = << >>

\* Lines 84-91: func is invoked and returns; the wrapper returns its result.
AttemptSucceeds ==
    /\ retry_pc = "loop"
    /\ attempts' = Append(attempts, <<"ok">>)
    /\ retry_result' = Len(attempts) + 1
    /\ retry_pc' = "returned"
    /\ UNCHANGED <<attempt, last_exception, retry_raised>>
    /\ UNCHANGED reframe

\* Lines 84-86 and 92-114: func is invoked and raises; the loop is left and
\* last_exception raised, or the wrapper sleeps before the next attempt.
AttemptFails ==
    /\ retry_pc = "loop"
    /\ \E e \in ErrorMessages :
          /\ attempts' = Append(attempts, e)
          /\ last_exception' = e
          /\ IF BreaksLoop(attempt, e)
             THEN /\ retry_pc' = "raised"
                  /\ retry_raised' = e
             ELSE /\ retry_pc' = "sleeping"
                  /\ UNCHANGED retry_raised
    /\ UNCHANGED <<attempt, retry_result>>
    /\ UNCHANGED reframe

\* time.sleep(delay) returns and the loop goes to the next attempt.
BackoffEnds ==
    /\ retry_pc = "sleeping"
    /\ attempt' = attempt + 1
    /\ retry_pc' = "loop"
    /\ UNCHANGED <<attempts, last_exception, retry_result, retry_raised>>
    /\ UNCHANGED reframe

ReNext ==
    \/ AttemptSucceeds
    \/ AttemptFails
    \/ BackoffEnds

\* -------------------------------------------------------- generate_text_async

MaxPrompts == 2

\* response.text: the text of the response, or None when it has none.
ResponseTexts == {"text", "None"}

\* Faulty variant: the exception of the retrying wrapper leaves
\* _sync_generate_text.
SyncGenerateTextRaisedPropagates(e) == [pc |-> "raised", result |-> "unset"]

\* Lines 187-191 of _sync_generate_text: an exception that leaves the
\* retrying wrapper is logged and None returned.
SyncGenerateTextRaised(e) == [pc |-> "returned", result |-> "None"]

\* asyncio.gather(*batch) without return_exceptions: the results of the
\* calls once all have returned, the exception of a call that raised.
GatherBatch(pcs) ==
    IF \E t \in DOMAIN pcs : pcs[t] = "raised" THEN "raised" ELSE "returned"

GtInit ==
    /\ client \in {"Client", "None"}
    /\ prompts \in 1..MaxPrompts
    /\ text_pc = [t \in 1..prompts |-> "created"]
    /\ async_error = [t \in 1..prompts |-> << >>]
    /\ sync_calls = [t \in 1..prompts |-> 0]
    /\ sync_attempt = [t \in 1..prompts |-> 0]
    /\ text_result = [t \in 1..prompts |-> "unset"]
    /\ batch_pc = "awaiting"

\* Lines 196-205: without a client the call returns None at once; otherwise
\* the asynchronous request is sent.
TextCallStarts(t) ==
    /\ text_pc[t] = "created"
    /\ IF client = "None"
       THEN /\ text_pc' = [text_pc EXCEPT ![t] = "returned"]
            /\ text_result' = [text_result EXCEPT ![t] = "None"]
       ELSE /\ text_pc' = [text_pc EXCEPT ![t] = "async"]
            /\ UNCHANGED text_result
    /\ UNCHANGED <<client, prompts, async_error, sync_calls, sync_attempt,
                   batch_pc>>
    /\ UNCHANGED gtframe

\* Lines 203-206: the asynchronous request answers and response.text is
\* returned.
AsyncRequestReturns(t) ==
    /\ text_pc[t] = "async"
    /\ \E text \in ResponseTexts :
          text_result' = [text_result EXCEPT ![t] = text]
    /\ text_pc' = [text_pc EXCEPT ![t] = "returned"]
    /\ UNCHANGED <<client, prompts, async_error, sync_calls, sync_attempt,
                   batch_pc>>
    /\ UNCHANGED gtframe

\* Lines 207-213 and 173-175: the asynchronous request raises; the
\* exception is logged and _sync_generate_text is run in the executor,
\* where it returns None without a client and enters the retrying wrapper
\* with one.
AsyncRequestFails(t) ==
    /\ text_pc[t] = "async"
    /\ \E e \in ErrorMessages :
          async_error' = [async_error EXCEPT ![t] = e]
    /\ sync_calls' = [sync_calls EXCEPT ![t] = @ + 1]
    /\ IF client = "None"
       THEN /\ text_pc' = [text_pc EXCEPT ![t] = "returned"]
            /\ text_result' = [text_result EXCEPT ![t] = "None"]
       ELSE /\ text_pc' = [text_pc EXCEPT ![t] = "sync"]
            /\ UNCHANGED text_result
    /\ UNCHANGED <<client, prompts, sync_attempt, batch_pc>>
    /\ UNCHANGED gtframe

\* Lines 177-188: an attempt of the retrying wrapper returns response.text,
\* which _sync_generate_text and generate_text_async return in turn.
SyncAttemptReturns(t) ==
    /\ text_pc[t] = "sync"
    /\ \E text \in ResponseTexts :
          text_result' = [text_result EXCEPT ![t] = text]
    /\ text_pc' = [text_pc EXCEPT ![t] = "returned"]
    /\ UNCHANGED <<client, prompts, async_error, sync_calls, sync_attempt,
                   batch_pc>>
    /\ UNCHANGED gtframe

\* Lines 177-191: an attempt of the retrying wrapper raises; the wrapper
\* goes to the next attempt after its backoff, or leaves its loop and
\* raises, which ends _sync_generate_text.
SyncAttemptFails(t) ==
    /\ text_pc[t] = "sync"
    /\ \E e \in ErrorMessages :
          IF BreaksLoop(sync_attempt[t], e)
          THEN /\ text_pc' =
                     [text_pc EXCEPT ![t] = SyncGenerateTextRaised(e).pc]
               /\ text_result' =
                     [text_result EXCEPT
                         ![t] = SyncGenerateTextRaised(e).result]
               /\ UNCHANGED sync_attempt
          ELSE /\ sync_attempt' = [sync_attempt EXCEPT ![t] = @ + 1]
               /\ UNCHANGED <<text_pc, text_result>>
    /\ UNCHANGED <<client, prompts, async_error, sync_calls, batch_pc>>
    /\ UNCHANGED gtframe

\* workflow_service.py line 159: every call of the batch has ended and the
\* gather returns or raises.
BatchGathered ==
    /\ batch_pc = "awaiting"
    /\ \A t \in 1..prompts : text_pc[t] \in {"returned", "raised"}
    /\ batch_pc' = GatherBatch(text_pc)
    /\ UNCHANGED <<client, prompts, text_pc, async_error, sync_calls,
                   sync_attempt, text_result>>
    /\ UNCHANGED gtframe

GtNext ==
    \/ \E t \in 1..prompts : TextCallStarts(t)
    \/ \E t \in 1..prompts : AsyncRequestReturns(t)
    \/ \E t \in 1..prompts : AsyncRequestFails(t)
    \/ \E t \in 1..prompts : SyncAttemptReturns(t)
    \/ \E t \in 1..prompts : SyncAttemptFails(t)
    \/ BatchGathered

\* ------------------------------------------------------------ specifications

GtParked ==
    /\ client = "None"
    /\ prompts = 0
    /\ text_pc = << >>
    /\ async_error = << >>
    /\ sync_calls = << >>
    /\ sync_attempt = << >>
    /\ text_result = << >>
    /\ batch_pc = "parked"

ReParked ==
    /\ attempt = 0
    /\ retry_pc = "idle"
    /\ attempts = << >>
    /\ last_exception = << >>
    /\ retry_result = 0
    /\ retry_raised = << >>

CbParked ==
    /\ state = "CLOSED"
    /\ failure_count = 0
    /\ last_failure_time = 0
    /\ consecutive_successes = 0
    /\ clock = 0
    /\ calls = 0
    /\ last_call = "none"
    /\ failed_at = 0
    /\ failures_in_a_row = 0
    /\ successes_in_a_row = 0
    /\ invoked_in = "none"

RpParked ==
    /\ results = << >>
    /\ processed = 0
    /\ report = [successful_scrapes |-> << >>, partial_scrapes |-> << >>,
                 failed_scrapes |-> << >>]
    /\ report_pc = "idle"
    /\ saved = FALSE

WParked ==
    /\ args = [theme_hint |-> "None", season |-> "None", year |-> 0,
               target_audience |-> "None", region |-> "None"]
    /\ now = [month |-> 1, year |-> 2026]
    /\ season = "None"
    /\ year = 0
    /\ wpc = "idle"
    /\ cached_report = "None"
    /\ wqueries = << >>
    /\ scraped_documents = 0
    /\ valid_summaries = 0
    /\ validated_report = FALSE
    /\ events = << >>

BParked ==
    /\ tasks = << >>
    /\ batch_size = 1
    /\ bpc = "idle"
    /\ batch_start = 0
    /\ task_state = [t \in Tasks |-> "created"]
    /\ finished = << >>
    /\ all_results = << >>
    /\ sleeps = 0

RtParked ==
    /\ requests = << >>
    /\ route_calls = [i \in 1..MaxRequests |-> << >>]
    /\ handled = [i \in 1..MaxRequests |-> "pending"]
    /\ route_error = [i \in 1..MaxRequests |-> NoError]
    /\ target_closed = FALSE

FltParked ==
    /\ flt_pc = "idle"
    /\ flt_all_urls = {}
    /\ flt_filtered = << >>
    /\ flt_refiltered = << >>

ExtParked ==
    /\ epc = "idle"
    /\ soup = [i \in Selectors |-> "none"]
    /\ target_soup = 0
    /\ cleaned_text = 0
    /\ extracted = 0

GParked ==
    /\ queries = << >>
    /\ web = 0
    /\ search_service = "none"
    /\ search_outcome = [q \in Queries |-> "none"]
    /\ url_lists = [q \in Queries |-> NoList]
    /\ all_urls = {}
    /\ filtered_urls = << >>
    /\ gpc = "idle"
    /\ semaphore = SemaphoreLimit
    /\ waiters = << >>
    /\ tpc = [u \in Urls |-> "none"]
    /\ timed_out = [u \in Urls |-> FALSE]
    /\ scraped = [u \in Urls |-> NoValue]
    /\ fetch_calls = << >>
    /\ session = [u \in Urls |-> 0]
    /\ session_count = 0
    /\ scraped_contents = << >>
    /\ result = << >>

FParked ==
    /\ url = 1
    /\ fpc = "idle"
    /\ pw = "off"
    /\ browser = FALSE
    /\ context = FALSE
    /\ page = FALSE
    /\ html_content = ""
    /\ strategy = 1
    /\ selector = 1
    /\ nav_log = << >>
    /\ nav_results = << >>
    /\ clicked = 0
    /\ cancelled = FALSE
    /\ torn_down = [k \in 1..3 |-> "no"]
    /\ fresult = NoValue

Init == GInit /\ FParked /\ FltParked /\ ExtParked /\ RtParked /\ BParked /\ WParked /\ RpParked /\ CbParked /\ ReParked /\ GtParked

Spec == Init /\ [][GNext]_vars

FetchInit == FInit /\ GParked /\ FltParked /\ ExtParked /\ RtParked /\ BParked /\ WParked /\ RpParked /\ CbParked /\ ReParked /\ GtParked

FetchSpec == FetchInit /\ [][FNext]_vars

FilterInit == FltInit /\ GParked /\ FParked /\ ExtParked /\ RtParked /\ BParked /\ WParked /\ RpParked /\ CbParked /\ ReParked /\ GtParked

FilterSpec == FilterInit /\ [][FltNext]_vars

ExtractInit == ExtInit /\ GParked /\ FParked /\ FltParked /\ RtParked /\ BParked /\ WParked /\ RpParked /\ CbParked /\ ReParked /\ GtParked

ExtractSpec == ExtractInit /\ [][ExtNext]_vars

RouteInit == RtInit /\ GParked /\ FParked /\ FltParked /\ ExtParked /\ BParked /\ WParked /\ RpParked /\ CbParked /\ ReParked /\ GtParked

RouteSpec == RouteInit /\ [][RtNext]_vars

BatchInit ==
    BInit /\ GParked /\ FParked /\ FltParked /\ ExtParked /\ RtParked
    /\ WParked /\ RpParked /\ CbParked /\ ReParked /\ GtParked

BatchSpec == BatchInit /\ [][BNext]_vars

WorkflowInit ==
    WInit /\ GParked /\ FParked /\ FltParked /\ ExtParked /\ RtParked
    /\ BParked /\ RpParked /\ CbParked /\ ReParked /\ GtParked

WorkflowSpec == WorkflowInit /\ [][WNext]_vars

ReportInit ==
    RpInit /\ GParked /\ FParked /\ FltParked /\ ExtParked /\ RtParked
    /\ BParked /\ WParked /\ CbParked /\ ReParked /\ GtParked

ReportSpec == ReportInit /\ [][RpNext]_vars

BreakerInit ==
    CbInit /\ GParked /\ FParked /\ FltParked /\ ExtParked /\ RtParked
    /\ BParked /\ WParked /\ RpParked /\ ReParked /\ GtParked

BreakerSpec == BreakerInit /\ [][CbNext]_vars

RetryInit ==
    ReInit /\ GParked /\ FParked /\ FltParked /\ ExtParked /\ RtParked
    /\ BParked /\ WParked /\ RpParked /\ CbParked /\ GtParked

RetrySpec == RetryInit /\ [][ReNext]_vars

GenTextInit ==
    GtInit /\ GParked /\ FParked /\ FltParked /\ ExtParked /\ RtParked
    /\ BParked /\ WParked /\ RpParked /\ CbParked /\ ReParked

GenTextSpec == GenTextInit /\ [][GtNext]_vars

\* The event loop runs every task that is ready and every timer fires; a
\* step of the finally block that hangs (CleanupHangs) is the
\* environment's choice and gets no fairness.
FairSpec ==
    /\ Spec
    /\ WF_vars(StartSearch)
    /\ \A q \in Queries : WF_vars(Search(q))
    /\ WF_vars(CollectUrls)
    /\ WF_vars(StartScraping)
    /\ WF_vars(GatherReturns)
    /\ \A u \in Urls :
          /\ WF_vars(Admit(u))
          /\ WF_vars(BodyEnds(u))
          /\ WF_vars(CleanupEnds(u))
          /\ WF_vars(Timeout(u))

\* The task regions of Spec abstract the awaits of FetchSpec: every way
\* a single call ends is an outcome a task of Spec can end with
\* (an invariant of FetchSpec).
TaskAbstraction ==
    fpc = "done" =>
        IF cancelled THEN fresult = TimeoutResult(url)
        ELSE fresult \in ScrapeOutcomes(url)

\* ------------------------------------------------------------------ claims

ActiveFetches == {u \in Urls : tpc[u] \in InFlight}

Succeeded == {u \in Range(filtered_urls) : scraped[u] = Text(u)}

Failed == Range(filtered_urls) \ Succeeded

\* C1: in every reachable state of gather_research_documents at most 4
\* fetches have started and not yet finished.
C1_BoundedConcurrency == Cardinality(ActiveFetches) <= 4

\* Four fetches are in flight and a fifth URL waits at the gate.
C1_Witness == Cardinality(ActiveFetches) = 4 /\ waiters # << >>

\* C2: when some but not all filtered URLs fail or time out, the call
\* returns exactly the texts of the URLs that succeeded: it does not
\* raise and the list is not empty.
C2_PartialFailure ==
    (gpc \in {"returned", "raised"} /\ Succeeded # {} /\ Failed # {}) =>
        /\ gpc = "returned"
        /\ Range(result) = {Text(u) : u \in Succeeded}
        /\ Len(result) = Cardinality(Succeeded)

\* The call has returned after one URL timed out, one returned "" and
\* two succeeded.
C2_Witness ==
    /\ gpc = "returned"
    /\ Cardinality(Succeeded) >= 2
    /\ \E u \in Failed : timed_out[u]
    /\ \E u \in Failed : ~timed_out[u] /\ scraped[u] = EmptyStr

\* C3: no exception of a URL's task leaves gather_research_documents; the
\* URL is left out of the returned documents.
C3_NoExceptionEscapes ==
    /\ gpc # "raised"
    /\ gpc = "returned" =>
          /\ \A i \in 1..Len(result) : result[i][1] = "str"
          /\ \A u \in Urls : scraped[u] = Raised(u) => Text(u) \notin Range(result)

\* The call has returned although the task of some URL raised.
C3_Witness == gpc = "returned" /\ \E u \in Urls : scraped[u] = Raised(u)

\* A URL the filter is to drop: its last token, lowercased, is an ignored
\* extension, or one of its tokens, lowercased, is an ignored domain.
MatchesIgnoreLists(u) ==
    LET tokens == UrlPool[u] IN
    \/ Lower(tokens[Len(tokens)]) \in ignored_extensions
    \/ \E i \in 1..Len(tokens) : Lower(tokens[i]) \in ignored_domains

AllFound_Ignored ==
    all_urls # {} /\ \A u \in all_urls : MatchesIgnoreLists(u)

\* C6: when the filter removes every URL the searches found, the call
\* returns the empty list and the fetcher is invoked for no URL.
C6_AllFilteredNoFetch ==
    AllFound_Ignored =>
        /\ fetch_calls = << >>
        /\ \A u \in Urls : tpc[u] = "none"
        /\ gpc \in {"searched", "returned"}
        /\ result = << >>

\* The call has returned for a non-empty URL set of which nothing is kept.
C6_Witness == AllFound_Ignored /\ gpc = "returned" /\ Cardinality(all_urls) >= 2

\* C7: a step in which the fetch of one URL times out or ends in failure
\* leaves the task of every other URL as it was.
C7_SiblingIsolation ==
    [][\A u \in Urls :
          (\/ (~timed_out[u] /\ timed_out'[u])
           \/ (tpc[u] \in InFlight /\ tpc'[u] = "done" /\ scraped'[u] # Text(u)))
          => \A v \in Urls \ {u} :
                /\ tpc'[v] = tpc[v]
                /\ timed_out'[v] = timed_out[v]
                /\ scraped'[v] = scraped[v]]_vars

\* One URL has timed out and another raised, while a third, in flight
\* with them, was not hit and delivered its text.
C7_Witness ==
    \E u, v, w \in Urls :
        /\ timed_out[u] /\ tpc[u] = "done"
        /\ scraped[w] = Raised(w)
        /\ ~timed_out[v] /\ scraped[v] = Text(v)
        /\ Len(fetch_calls) <= 4

\* C4: whatever the URL and whichever step of the call fails,
\* _scrape_url_content hands a string to its caller and raises nothing.
C4_FetchNeverRaises == fresult[1] # "exc"

\* C5: for a URL that does not start with http:// or https:// the fetch
\* returns "" at once: no browser session is started, no navigation tried.
C5_MalformedRejectedAtOnce ==
    ~HasHttpScheme(UrlPool[url]) =>
        /\ pw = "off" /\ ~browser /\ ~context /\ ~page
        /\ nav_log = << >>
        /\ fresult \in {NoValue, EmptyStr}

\* A handle is released when its step of the finally block has run, with
\* or without error, or when the driver that owns it has been stopped.
Released(k) == torn_down[k] # "no" \/ pw = "stopped"

\* C9: when _scrape_single_url_enhanced has ended, on whatever path, every
\* browser, context and page it created has been released, and an error
\* in one step of the finally block has not kept the later steps from
\* running.
C9_AllReleasedAtExit ==
    fpc = "done" =>
        /\ \A k \in 1..3 : HandleOf(k) => Released(k)
        /\ \A k \in 1..2 :
              torn_down[k] = "error" =>
                  \A j \in (k + 1)..3 : HandleOf(j) => torn_down[j] # "no"

C8_HungTeardownStillReturns ==
    (\E u \in Urls : tpc[u] = "hung") ~> (gpc = "returned")

\* C11: no browser session is held by two fetch tasks: every fetch that
\* has started works in a session of its own, and the session created for
\* one URL is the session of no other URL.
C11_OwnSessionPerFetch ==
    /\ \A u \in Urls : tpc[u] \in InFlight \cup {"done"} => session[u] # 0
    /\ \A u, v \in Urls : u # v /\ session[u] # 0 => session[u] # session[v]

\* Four fetches are in flight at once, each in its session.
C11_Witness ==
    /\ Cardinality({u \in Urls : tpc[u] \in InFlight}) = SemaphoreLimit
    /\ Cardinality({session[u] : u \in {v \in Urls : tpc[v] \in InFlight}})
          = SemaphoreLimit

FailedQueries == {q \in Range(queries) : search_outcome[q] = "failed"}

\* The URLs a query's search task handed over that the filter keeps.
KeptLinks(q) == {u \in Range(url_lists[q][2]) : KeepUrl(UrlPool[u])}

\* C12: a query whose search fails, by HttpError or by any other error,
\* yields the empty list and nothing is raised; the URLs of the other
\* queries are collected and, when the call has returned, every one of
\* them that the filter keeps has been fetched.
C12_FailedQueryYieldsEmptyList ==
    /\ gpc # "raised"
    /\ \A q \in FailedQueries : url_lists[q] = UrlList(<< >>)
    /\ \A q \in Range(queries) :
          search_outcome[q] = "ok" =>
             /\ url_lists[q] = UrlList(SearchItems(q, web, SEARCH_NUM_RESULTS))
             /\ gpc \in {"searched", "gathering", "returned"} =>
                   Range(url_lists[q][2]) \subseteq all_urls
             /\ gpc = "returned" => KeptLinks(q) \subseteq Range(fetch_calls)

\* The call has returned documents although one query failed: the links
\* of the other query were fetched.
C12_Witness ==
    /\ gpc = "returned"
    /\ FailedQueries # {}
    /\ \E q \in Range(queries) :
          /\ search_outcome[q] = "ok"
          /\ Cardinality(KeptLinks(q)) >= 2
          /\ KeptLinks(q) \subseteq Range(fetch_calls)
    /\ result # << >>

\* C13: with an empty query list, or when the search client cannot be
\* built, the call returns the empty list and raises nothing; no search
\* request and no fetch is issued.
C13_NoQueriesOrNoClient ==
    (queries = << >> \/ search_service = "failed") =>
        /\ gpc \in {"called", "returned"}
        /\ \A q \in Queries : search_outcome[q] = "none"
        /\ fetch_calls = << >>
        /\ session_count = 0
        /\ result = << >>

\* The call has returned after build() failed, with queries to run and
\* URLs to be found.
C13_Witness ==
    /\ search_service = "failed" /\ gpc = "returned"
    /\ Len(queries) = MaxQueries /\ web = MaxUrls

\* How often u occurs in the list s.
Occurrences(s, u) == Cardinality({i \in 1..Len(s) : s[i] = u})

\* C14: a URL returned by several queries, or several times by one query,
\* is one candidate: it occurs once in the list of URLs to fetch and is
\* fetched at most once.
C14_DuplicatesFetchedOnce ==
    /\ gpc \in {"searched", "gathering", "returned"} =>
          all_urls = UNION {Range(url_lists[q][2]) : q \in Range(queries)}
    /\ \A u \in Urls : Occurrences(filtered_urls, u) <= 1
    /\ \A u \in Urls : Occurrences(fetch_calls, u) <= 1

\* The call has returned; some URL was returned by two queries, and twice
\* by one of them, and was fetched.
C14_Witness ==
    /\ gpc = "returned"
    /\ \E u \in Range(fetch_calls) :
          /\ \E q1, q2 \in Range(queries) :
                /\ q1 # q2
                /\ u \in Range(url_lists[q1][2])
                /\ Occurrences(url_lists[q2][2], u) >= 2
          /\ u \in Succeeded

\* A token that starts the query string or the fragment of a URL.
IsQueryOrFragment(t) == t \in {"?dl=1", "?file=a", "#top"}

\* The URL up to its path: the tokens before the query string or fragment.
RECURSIVE PathOf(_)
PathOf(tokens) ==
    IF tokens = << >> \/ IsQueryOrFragment(Head(tokens)) THEN << >>
    ELSE <<Head(tokens)>> \o PathOf(Tail(tokens))

\* A URL the filter is to drop according to C15: its path ends with an
\* ignored extension, whatever the case, or its lowercase form contains
\* an ignored domain.
PathMatchesIgnoreLists(u) ==
    LET tokens == UrlPool[u]
        path == PathOf(tokens)
    IN  \/ path # << >> /\ Lower(path[Len(path)]) \in ignored_extensions
        \/ \E i \in 1..Len(tokens) : Lower(tokens[i]) \in ignored_domains

\* C15: the filter drops a URL exactly when its path ends with an ignored
\* extension (case-insensitively) or its lowercase form contains an
\* ignored domain, also when a query string or fragment follows the path.
C15_DropsExactlyIgnored ==
    flt_pc # "start" =>
        \A u \in flt_all_urls :
            u \notin Range(flt_filtered) <=> PathMatchesIgnoreLists(u)

\* C16: the filter applied to its own output returns that output.
C16_FilterIdempotent ==
    flt_pc = "refiltered" => flt_refiltered = flt_filtered

\* The filter has run twice on a set of which it drops some URLs, by
\* extension and by domain, and keeps others.
C16_Witness ==
    /\ flt_pc = "refiltered"
    /\ Cardinality(Range(flt_filtered)) >= 3
    /\ \E u \in flt_all_urls :
          EndsWith(LowerUrl(UrlPool[u]), ".pdf") /\ u \notin Range(flt_filtered)
    /\ \E u \in flt_all_urls :
          Contains(LowerUrl(UrlPool[u]), "amazon.com") /\ u \notin Range(flt_filtered)

\* C17: the extractor returns "" when the cleaned text has fewer than 200
\* characters, and otherwise a text of at least 200 and at most 50000
\* characters: every non-empty text it returns, and so every document
\* gather_research_documents returns, has between 200 and 50000 characters.
C17_ExtractedLengthBounds ==
    epc = "returned" =>
        /\ cleaned_text < 200 => extracted = 0
        /\ cleaned_text >= 200 => extracted >= 200 /\ extracted <= 50000
        /\ extracted # 0 => extracted >= 200 /\ extracted <= 50000

\* The extractor has returned the first 50000 characters of a longer text.
C17_Witness ==
    epc = "returned" /\ cleaned_text > 50000 /\ extracted = 50000

\* The selectors whose match has more than 300 characters of text.
LongMatches == {i \in Selectors : soup[i] = "long"}

\* C18: the extraction root is the first selector of the list whose match
\* has more than 300 characters of text; when there is none, the root is
\* the full document, also when a selector matched an element with less.
C18_RootIsFirstLongMatch ==
    epc \in {"rooted", "returned"} =>
        target_soup = (IF LongMatches = {} THEN 0
                       ELSE CHOOSE i \in LongMatches : \A j \in LongMatches : i <= j)

\* The document the navigation strategies ended with, if any.
NavAccepted ==
    nav_results # << >> /\ nav_results[Len(nav_results)] = "long"

\* C19: the strategies are tried in the order fast, standard, patient; a
\* strategy is tried only if every earlier one failed or gave a document
\* of at most 500 characters; the first document of more than 500
\* characters is accepted and no later strategy runs; when all three fail
\* the fetch returns "" and raises nothing.
C19_StrategyFallback ==
    /\ nav_log = SubSeq(<<"fast", "standard", "patient">>, 1, Len(nav_log))
    /\ Len(nav_results) \in {Len(nav_log) - 1, Len(nav_log)}
    /\ \A i \in 1..Len(nav_results) :
          i < Len(nav_log) => nav_results[i] \in {"error", "short"}
    /\ NavAccepted =>
          Len(nav_results) = Len(nav_log) /\ fpc \notin {"goto", "nav_content"}
    /\ fpc \in {"click", "cookie_wait", "content"} => NavAccepted
    /\ (fpc = "done" /\ nav_results = <<"error", "error", "error">>) =>
          fresult = EmptyStr

\* The fetch has returned a text after the first strategy failed, the
\* second gave a short document and the third a usable one.
C19_Witness ==
    /\ fpc = "done"
    /\ nav_log = strategies
    /\ nav_results = <<"error", "short", "long">>
    /\ fresult = Text(url)

\* C20: cookie banners are handled only after a strategy gave a usable
\* document; the selector loop stops at the first click that succeeds;
\* when no selector matches, or when the cookie handling or the content
\* retrieval after it fails, the fetch goes on to the extraction with the
\* document it has.
C20_CookieDismissal ==
    /\ fpc \in {"click", "cookie_wait", "content"} =>
          NavAccepted /\ html_content = "long"
    /\ clicked <= 1
    /\ fpc = "click" => clicked = 0
    /\ (fpc = "done" /\ NavAccepted /\ ~cancelled) => html_content # ""

\* C21: the route handler aborts every intercepted request of type image,
\* stylesheet, font, media or websocket and lets every other request
\* continue; on each route one call is made, abort or continue.
C21_BlockedTypesAborted ==
    \A i \in 1..Len(requests) :
        handled[i] # "pending" =>
            /\ Len(route_calls[i]) = 1
            /\ route_calls[i][1] = "abort" <=>
                  requests[i] \in {"image", "stylesheet", "font", "media",
                                   "websocket"}

\* C22: when _run_tasks_in_batches returns, its list holds one result per
\* task, the result of the k-th task in the k-th place, whatever order
\* the tasks ended in and whatever the batch size.
C22_ResultsInTaskOrder ==
    bpc = "returned" =>
        /\ Len(all_results) = Len(tasks)
        /\ \A k \in 1..Len(tasks) : all_results[k] = <<"res", tasks[k]>>

\* The call has returned after more than one batch, the tasks having
\* ended in another order than they were given in.
C22_Witness ==
    /\ bpc = "returned"
    /\ Len(tasks) >= 3 /\ batch_size >= 2 /\ sleeps >= 1
    /\ finished # tasks

\* The number of the batch task t belongs to, counted from 0.
BatchOf(t) == (t - 1) \div batch_size

\* C23: no task starts before every task of the batches before its own
\* has ended and the delay after each of them has elapsed; at most
\* batch_size tasks run at a time; the delay is taken after every batch
\* but the last.
C23_BatchesInSequence ==
    /\ Cardinality({t \in Tasks : task_state[t] = "running"}) <= batch_size
    /\ \A t \in Range(tasks) :
          task_state[t] # "created" =>
             /\ \A e \in Range(tasks) :
                   BatchOf(e) < BatchOf(t) => task_state[e] = "done"
             /\ sleeps >= BatchOf(t)
    /\ tasks # << >> => sleeps <= BatchOf(Len(tasks))
    /\ (bpc = "returned" /\ tasks # << >>) => sleeps = BatchOf(Len(tasks))

\* The call has returned after two delays, the last batch being shorter
\* than the others.
C23_Witness ==
    /\ bpc = "returned"
    /\ sleeps >= 2
    /\ Len(tasks) % batch_size # 0

\* C24: when a task fails, the call still returns a list as long as the
\* task list, with the error in the failing task's place and the result
\* of every other task in its place; nothing is raised.
C24_FailureKeptInPlace ==
    /\ bpc # "raised"
    /\ bpc = "returned" =>
          /\ Len(all_results) = Len(tasks)
          /\ \A k \in 1..Len(tasks) :
                all_results[k] = (IF task_state[tasks[k]] = "failed"
                                  THEN <<"err", tasks[k]>>
                                  ELSE <<"res", tasks[k]>>)

\* C25: when gather_research_documents has returned no document the run is
\* halted and the call of gather_research_documents is the last thing it
\* did: no summarization request, synthesis request, result-file write or
\* cache insertion follows it.
C25_NoDocumentsHalts ==
    ("gather_research_documents" \in Range(events) /\ scraped_documents = 0)
        => /\ wpc = "halted"
           /\ events[Len(events)] = "gather_research_documents"

C25_Witness ==
    /\ wpc = "halted"
    /\ scraped_documents = 0
    /\ cached_report = "invalid"
    /\ events = <<"check_cache", "gather_research_documents">>

\* The f-strings of a list of queries, in order.
TiersOf(qs) == [k \in 1..Len(qs) |-> qs[k].tier]

\* C28: the generated list is the six general queries in their order,
\* followed by the two regional queries exactly when a region is given, and
\* every value in a query is a field of the brief.
C28_QueriesFromBrief ==
    wqueries # << >> =>
        /\ TiersOf(wqueries) =
              <<"tier1", "tier2", "tier3_1", "tier3_2", "tier4_1", "tier4_2">>
              \o (IF Truthy(args.region) THEN <<"tier4_3", "tier4_4">>
                                         ELSE << >>)
        /\ \A k \in 1..Len(wqueries) :
              /\ wqueries[k].season \in {"", season}
              /\ wqueries[k].year \in {0, year}
              /\ wqueries[k].theme_hint \in {"", args.theme_hint}
              /\ wqueries[k].region \in {"", args.region}
              /\ wqueries[k].region_search_query
                    \in {<< >>, <<" in ", args.region>>}
              /\ wqueries[k].audience_query
                    \in {<< >>, <<" for ", args.target_audience>>}
              /\ wqueries[k].tier \in {"tier4_3", "tier4_4"}
                    <=> wqueries[k].region # ""

C28_Witness ==
    /\ Len(wqueries) = 8
    /\ args.region = "Dhaka"
    /\ wqueries[7].region = "Dhaka"

\* C29: a run whose theme hint is empty or blank halts before any cache
\* lookup, search or default; otherwise a season or year the caller gave
\* is kept, a missing season is Spring/Summer in the months April to
\* September and Fall/Winter in the others, and a missing year is the
\* current year.
C29_BriefValidationAndDefaults ==
    /\ Strip(args.theme_hint) \in {"", "None"}
          => /\ wpc \in {"idle", "called", "halted"}
             /\ events = << >>
             /\ wqueries = << >>
             /\ season = args.season
             /\ year = args.year
    /\ (Strip(args.theme_hint) \notin {"", "None"} /\ wpc # "called")
          => /\ season = IF args.season \in {"None", ""}
                         THEN (IF now.month \in 4..9 THEN "Spring/Summer"
                                                     ELSE "Fall/Winter")
                         ELSE args.season
             /\ year = IF args.year = 0 THEN now.year ELSE args.year

C29_Witness ==
    /\ wpc = "check_cache"
    /\ args.season = "None"
    /\ args.year = 0
    /\ now.month = 9
    /\ season = "Spring/Summer"
    /\ year = now.year

\* C26: when gather_research_documents returns, asyncio.gather has handed
\* it one outcome per filtered URL, in the order of the URLs, also for a
\* URL whose fetch raised or timed out; each outcome is the text of its
\* URL (an accepted document) or a failure (the empty string or an
\* exception), and the accepted documents are what the call returns.
C26_OneOutcomePerFilteredUrl ==
    gpc = "returned" =>
        /\ Len(scraped_contents) = Len(filtered_urls)
        /\ \A i \in 1..Len(scraped_contents) :
              scraped_contents[i] \in
                  {Text(filtered_urls[i]), EmptyStr, Raised(filtered_urls[i])}
        /\ result = SelectSeq(scraped_contents,
                              LAMBDA c : c[1] = "str" /\ c[2] # 0)

C26_Witness ==
    /\ gpc = "returned"
    /\ Len(filtered_urls) >= 3
    /\ \E i, j, k \in 1..Len(filtered_urls) :
          /\ scraped_contents[i] = Raised(filtered_urls[i])
          /\ timed_out[filtered_urls[j]]
          /\ scraped_contents[j] = EmptyStr
          /\ scraped_contents[k] = Text(filtered_urls[k])

\* The numbers of the results that have an entry in a list of the report.
UrlsIn(entries) == {entries[k].url : k \in 1..Len(entries)}

\* C27: every result the loop of save_scraping_report has gone through has
\* its entry in exactly one of the three lists: in successful_scrapes when
\* its status is success, in partial_scrapes when it is partial, and in
\* failed_scrapes for every other status and for no status; the sizes of
\* the lists add up to the number of results gone through, and no entry of
\* failed_scrapes has a content.
C27_ThreeBuckets ==
    /\ Len(report.successful_scrapes) + Len(report.partial_scrapes)
          + Len(report.failed_scrapes) = processed
    /\ report_pc = "returned" => processed = Len(results)
    /\ \A i \in 1..processed :
          LET status == IF "status" \in DOMAIN results[i]
                        THEN results[i]["status"] ELSE "absent"
          IN  /\ i \in UrlsIn(report.successful_scrapes)
                    <=> status = "success"
              /\ i \in UrlsIn(report.partial_scrapes) <=> status = "partial"
              /\ i \in UrlsIn(report.failed_scrapes)
                    <=> status \notin {"success", "partial"}
    /\ \A k \in 1..Len(report.failed_scrapes) :
          /\ "content" \notin DOMAIN report.failed_scrapes[k]
          /\ report.failed_scrapes[k].status = "failed"

C27_Witness ==
    /\ report_pc = "returned"
    /\ Len(results) = 3
    /\ "status" \notin DOMAIN results[1]
    /\ "content" \in DOMAIN results[1]
    /\ Get(results[2], "status", "absent") = "timeout"
    /\ Get(results[3], "status", "absent") = "partial"
    /\ Len(report.failed_scrapes) = 2
    /\ Len(report.partial_scrapes) = 1

\* A fetch that never ends: its finally block hangs after the timer of
\* wait_for has fired, so nothing is left to end it.
FetchNeverEnds == \E v \in Urls : tpc[v] = "hung" /\ timed_out[v]

\* C30: the free permits and the fetches in flight always add up to 4, a
\* call that has returned has an outcome for every filtered URL, and
\* unless a fetch never ends, the gathering call returns.
C30_GateReleasedAndAllReturn ==
    /\ [](/\ semaphore + Cardinality({u \in Urls : tpc[u] \in InFlight}) = 4
          /\ gpc = "returned" =>
                \A u \in Range(filtered_urls) :
                    tpc[u] = "done" /\ scraped[u] # NoValue)
    /\ (gpc = "gathering") ~> (gpc = "returned" \/ FetchNeverEnds)

\* The call has returned after more fetches than permits, one of which
\* raised, one timed out and one delivered its text.
C30_Witness ==
    /\ gpc = "returned"
    /\ Len(filtered_urls) > SemaphoreLimit
    /\ semaphore = SemaphoreLimit
    /\ \A u \in Range(filtered_urls) : tpc[u] = "done"
    /\ \E u, v, w \in Range(filtered_urls) :
          /\ scraped[u] = Raised(u)
          /\ timed_out[v]
          /\ scraped[w] = Text(w)

\* C31: a handler whose route call failed because the page, the context
\* or the browser was closed has returned normally, with the exception
\* swallowed; a handler whose route call failed for another reason has
\* re-raised; a handler whose route call did not fail has returned.
C31_ClosedTargetSwallowed ==
    \A i \in 1..Len(requests) :
        handled[i] \notin {"pending", "calling"} =>
            /\ route_error[i].cause = "closed" <=> handled[i] = "swallowed"
            /\ route_error[i].cause = "other" <=> handled[i] = "raised"
            /\ route_error[i].cause = "none" <=> handled[i] = "returned"

\* One request was aborted on a closed target and swallowed, another
\* failed before the close for another reason and was re-raised.
C31_Witness ==
    /\ Len(requests) = 2
    /\ \E i, j \in 1..2 :
          /\ handled[i] = "swallowed" /\ route_calls[i] = <<"abort">>
          /\ route_error[i].cause = "closed"
          /\ handled[j] = "raised" /\ route_error[j].cause = "other"

\* C32: a CLOSED breaker opens only with a call that is at least the
\* failure_threshold-th failed call in a row, and a successful call on a
\* CLOSED breaker leaves the count of failures at 0.
C32_OpensOnConsecutiveFailures ==
    [][/\ (state = "CLOSED" /\ state' = "OPEN")
             => failures_in_a_row' >= failure_threshold
       /\ (state = "CLOSED" /\ calls' = calls + 1 /\ last_call' = "ok")
             => failure_count' = 0]_vars

\* C33: a call on an OPEN breaker made less than recovery_timeout seconds
\* after func last failed is rejected (func is not invoked) and changes
\* none of state, failure_count, last_failure_time and
\* consecutive_successes; a call on an OPEN breaker that invokes func is
\* made more than recovery_timeout seconds after that failure and invokes
\* it in state HALF_OPEN.
C33_OpenRejectsUntilTimeout ==
    [][(state = "OPEN" /\ calls' = calls + 1) =>
          /\ clock - failed_at < recovery_timeout =>
                /\ last_call' = "rejected"
                /\ UNCHANGED <<state, failure_count, last_failure_time,
                               consecutive_successes>>
          /\ last_call' # "rejected" =>
                /\ clock - failed_at > recovery_timeout
                /\ invoked_in' = "HALF_OPEN"]_vars

\* C34: the state is CLOSED, OPEN or HALF_OPEN; a breaker that becomes
\* CLOSED does so with the third successful call in a row, invoked in
\* HALF_OPEN, and with both counters at 0; a call that fails in HALF_OPEN
\* leaves the breaker OPEN with consecutive_successes at 0; and a
\* successful call in HALF_OPEN that is not the third leaves it HALF_OPEN.
C34_HalfOpenTransitions ==
    /\ [](state \in {"CLOSED", "OPEN", "HALF_OPEN"})
    /\ [][/\ (state # "CLOSED" /\ state' = "CLOSED")
                => /\ last_call' = "ok" /\ invoked_in' = "HALF_OPEN"
                   /\ successes_in_a_row' = 3
                   /\ failure_count' = 0
                   /\ consecutive_successes' = 0
          /\ (calls' = calls + 1 /\ invoked_in' = "HALF_OPEN"
              /\ last_call' = "failed")
                => state' = "OPEN" /\ consecutive_successes' = 0
          /\ (calls' = calls + 1 /\ invoked_in' = "HALF_OPEN"
              /\ last_call' = "ok" /\ successes_in_a_row' < 3)
                => state' = "HALF_OPEN"]_vars

\* The breaker has opened, failed once more in HALF_OPEN, and closed
\* after three successes.
C34_Witness ==
    /\ state = "CLOSED"
    /\ calls = 9
    /\ last_call = "ok"
    /\ invoked_in = "HALF_OPEN"
    /\ successes_in_a_row = 3
    /\ failure_count = 0

\* C35: func is invoked at most 6 times; every invocation but the last
\* ended with a retryable error; a wrapper that returned hands back the
\* result of its last invocation, the only successful one; a wrapper that
\* raised did so after a non-retryable error or after the sixth failure,
\* and raised the exception of its last invocation.
C35_RetryAtMostSixTimes ==
    /\ Len(attempts) <= 6
    /\ Len(attempts) = attempt + (IF retry_pc = "loop" THEN 0 ELSE 1)
    /\ \A k \in 1..(Len(attempts) - 1) :
          attempts[k] # <<"ok">> /\ ShouldRetry(attempts[k])
    /\ retry_pc = "sleeping" => ShouldRetry(attempts[Len(attempts)])
    /\ retry_pc = "returned" =>
          /\ attempts[Len(attempts)] = <<"ok">>
          /\ retry_result = Len(attempts)
          /\ retry_raised = << >>
    /\ retry_pc = "raised" =>
          /\ attempts[Len(attempts)] # <<"ok">>
          /\ retry_raised = attempts[Len(attempts)]
          /\ retry_result = 0
          /\ Len(attempts) = 6 \/ ~ShouldRetry(retry_raised)

\* The sixth attempt failed with a retryable error, after an attempt that
\* failed with another one, and the wrapper raised the last.
C35_Witness ==
    /\ retry_pc = "raised"
    /\ Len(attempts) = 6
    /\ ShouldRetry(retry_raised)
    /\ attempts[5] # attempts[6]

\* C37: when check_cache returns a report that parses and validates, the
\* run makes no search, scrape, summarization or synthesis call and does
\* not modify the cache; when the cached report fails to parse or
\* validate, the run goes on to the research workflow instead of halting
\* at the cache step.
C37_ValidCachedReportEndsRun ==
    /\ cached_report \in {"valid", "valid_no_pieces"}
          => /\ wpc \in {"cached", "completed"}
             /\ \A k \in 1..Len(events) :
                   events[k] \notin {"gather_research_documents",
                                     "generate_text_async",
                                     "generate_structured_json",
                                     "add_to_cache"}
    /\ (cached_report = "invalid" /\ wpc = "halted")
          => \E k \in 1..Len(events) :
                events[k] = "gather_research_documents"

\* C39: generate_text_async never raises: a call whose asynchronous
\* request fails calls _sync_generate_text exactly once (a call whose
\* request answers, never) and returns the text of that path or None, so
\* the gather of the batch the call runs in never raises.
C39_GenerateTextNeverRaises ==
    /\ batch_pc # "raised"
    /\ \A t \in 1..prompts :
          /\ text_pc[t] # "raised"
          /\ sync_calls[t] = IF async_error[t] = << >> THEN 0 ELSE 1
          /\ text_pc[t] = "returned" => text_result[t] \in {"text", "None"}
          /\ text_pc[t] # "returned" => text_result[t] = "unset"

\* A batch has returned in which one call fell back to the synchronous
\* path, used up every retry there and returned None, while another call
\* returned a text.
C39_Witness ==
    /\ batch_pc = "returned"
    /\ \E t, u \in 1..prompts :
          /\ async_error[t] # << >>
          /\ sync_attempt[t] = max_retries
          /\ text_result[t] = "None"
          /\ text_result[u] = "text"

====
